---------------------------- MODULE Spec2Model ----------------------------
(***************************************************************************)
(* WhaleMind wallet-behaviour classification engine                        *)
(* (src/intelligence.py, src/behavior.py).                                 *)
(*                                                                         *)
(* Number conventions.  Python floats are modelled in fixed point:         *)
(*   - the ETH totals of the metrics, ratios, scores, tx_frequency: units  *)
(*     of 1/10000 (the four decimals the code rounds to);                  *)
(*   - the ETH value of one transfer, which the code does not round:       *)
(*     units of 1/100000 ("fine" units);                                   *)
(*   - span_days and confidence: units of 1/100 (two decimals);            *)
(*   - the "value" field of a transfer is a wei string, written here in    *)
(*     units of 10^13 wei, so that WEI_PER_ETH is 100000 of them;          *)
(*   - timestamps are epoch seconds.                                       *)
(* Where round() is applied to a float whose exact value is a decimal tie, *)
(* the result depends on which side of the tie the binary float lies, and  *)
(* for a sum on the order of the additions.  The side is a function of the *)
(* operands in their order: float_ties records it for every evaluation     *)
(* made so far, so that the same evaluation always gives the same result.  *)
(* An address is a natural number: 0 is the absent/empty address, 2k is    *)
(* the lower-case spelling of address k and 2k+1 a mixed-case spelling of  *)
(* the same address.                                                       *)
(* The callers of the engine (src/api.py, src/precompute.py) receive the   *)
(* address as text: there a wallet is a sequence of characters, and an     *)
(* address has ADDRESS_HEX_LEN hex digits after "0x" instead of 40.        *)
(***************************************************************************)
EXTENDS Integers, Sequences, FiniteSets, TLC

VARIABLES
    transactions,      \* the transfer list handed to classify_wallet
    wallet_address,    \* the subject address handed to classify_wallet
    n_batches,         \* how many batches the caller has put in the list
    pc,                \* position of the classify_wallet invocation
    metrics,           \* _compute_intelligence_metrics' return value
    scores,            \* _compute_all_scores' return value
    best_verdict,      \* _pick_verdict_and_confidence: best_verdict
    neutral_fallback,  \* _pick_verdict_and_confidence: neutral_fallback
    entity_inference,  \* _pick_verdict_and_confidence: entity_inference
    data_quality,      \* _compute_confidence: data_quality, as [num, den]
    confidence,        \* _compute_confidence's return value (hundredths)
    behavior_summary,  \* _behavior_summary's return value
    result,            \* classify_wallet's return value
    float_ties,        \* the side of the tie of the float evaluations made
    invocation,        \* which invocation the variables above belong to
    other_frame,       \* the frame of the other invocation: an earlier call
                       \* that returned, or a concurrent call that is suspended
    caller             \* the caller of the engine: the request it handled,
                       \* its response and what it fetched, called and wrote

\* the arguments, locals and return value of one classify_wallet invocation
frame == << transactions, wallet_address, pc, metrics, scores, best_verdict,
            neutral_fallback, entity_inference, data_quality, confidence,
            behavior_summary, result >>

\* what lies outside the running invocation
outside == << invocation, other_frame, caller >>

vars == << transactions, wallet_address, n_batches, pc, metrics, scores,
           best_verdict, neutral_fallback, entity_inference, data_quality,
           confidence, behavior_summary, result, float_ties, invocation,
           other_frame, caller >>

---------------------------------------------------------------------------
(* Bounds of the model *)

\* how many batches of transfers the caller may put in the list
MaxBatches == 2

\* how long the list of a caller that calls twice may be
MaxCallLen == 3
\* longest wallet string a caller is handed
MaxWalletLen == 6

---------------------------------------------------------------------------
(* Fixed-point scales and sentinels *)

\* one ETH, in the 1/10000 units amounts are kept in
ETH == 10000
\* 1.0 for a score, a ratio or a frequency (1/10000 units)
ONE == 10000
\* Python None for a ratio, a timestamp, an absent value
None == -1
\* a string that is not a number ("abc"): value or timeStamp
Malformed == -2
\* the absent / empty address
NoAddr == 0
\* fine units (1/100000 ETH) in one unit of a rounded amount (1/10000 ETH)
FINE_PER_UNIT == 10

\* an amount of 1/10000 units, in fine units
Fine(x) == x * FINE_PER_UNIT

SECONDS_PER_DAY == 86400
SECONDS_PER_HOUR == 3600
HOURS_PER_DAY == 24

---------------------------------------------------------------------------
(* Arithmetic helpers *)

Min(a, b) == IF a <= b THEN a ELSE b
Max(a, b) == IF a >= b THEN a ELSE b

RECURSIVE GCD(_, _)
GCD(a, b) == IF b = 0 THEN a ELSE GCD(b, a % b)

\* n/d rounded to the nearest integer, ties to even (Python's round on an
\* exactly representable value); n >= 0, d > 0
RoundHalfEven(n, d) ==
    LET q == n \div d
        r == n % d
    IN  IF 2 * r > d \/ (2 * r = d /\ q % 2 = 1) THEN q + 1 ELSE q

\* round(a * b / c), with the common factors cancelled first so that the
\* product stays inside TLC's integers; a, b >= 0, c > 0
MulDivRound(a, b, c) ==
    LET g1 == GCD(a, c)
        a1 == a \div g1
        c1 == c \div g1
        g2 == GCD(b, c1)
        b1 == b \div g2
        c2 == c1 \div g2
    IN  RoundHalfEven(a1 * b1, c2)

\* the integer part and n decimal digits of a quotient, by long division:
\* acc holds the digits found so far, rem the remainder they leave
RECURSIVE DivDigits(_, _, _, _)
DivDigits(acc, rem, b, n) ==
    IF n = 0 THEN [q |-> acc, r |-> rem]
    ELSE DivDigits(acc * 10 + (rem * 10) \div b, (rem * 10) % b, b, n - 1)

\* round(a / b, n) in units of 10^-n, ties to even; a >= 0, b > 0
DivRound(a, b, n) ==
    LET d == DivDigits(a \div b, a % b, b, n)
    IN  IF 2 * d.r > b \/ (2 * d.r = b /\ d.q % 2 = 1) THEN d.q + 1 ELSE d.q

\* the outcomes of round(n/d) on a binary float: the nearest integer, and at
\* an exact decimal tie either neighbour (the float lies on one side of the
\* tie or the other, which fixed point cannot tell)
RoundFloat(n, d) ==
    LET q == n \div d
        r == n % d
    IN  IF 2 * r > d THEN {q + 1}
        ELSE IF 2 * r < d THEN {q}
        ELSE {q, q + 1}

Range(s) == { s[i] : i \in 1..Len(s) }

\* An entry of float_ties: the evaluation at site ("sum", "confidence") on
\* the operands, in their order, lies above (up) or below its decimal tie.
TieEntry(site, operands, up) == [site |-> site, operands |-> operands, up |-> up]

TieKey(site, operands) == [site |-> site, operands |-> operands]

IsKnownTie(ties, key) ==
    \E e \in ties : e.site = key.site /\ e.operands = key.operands

RoundsUp(ties, key) ==
    \E e \in ties : e.site = key.site /\ e.operands = key.operands /\ e.up

\* variant of ExtendTies: an evaluation made before may fall on the other side
\* when it is made again
ExtendTies_fresh(ties, keys) ==
    { (ties \ { e \in ties : TieKey(e.site, e.operands) \in keys })
        \cup { TieEntry(k.site, k.operands, f[k]) : k \in keys } :
        f \in [keys -> BOOLEAN] }

\* the tables that extend ties by a side for each key it does not decide yet
ExtendTies(ties, keys) ==
    LET unknown == { k \in keys : ~IsKnownTie(ties, k) }
    IN  { ties \cup { TieEntry(k.site, k.operands, f[k]) : k \in unknown } :
            f \in [unknown -> BOOLEAN] }

RECURSIVE SumSeq(_)
SumSeq(s) == IF s = << >> THEN 0 ELSE Head(s) + SumSeq(Tail(s))

\* whether round(x, 4) of the float sum of s (fine units) is a decimal tie
IsSumTie(s) == 2 * (SumSeq(s) % FINE_PER_UNIT) = FINE_PER_UNIT

\* round(x, 4) of the float sum of s, the additions made in the order of s:
\* 1/10000 units; at a tie the side the float sum of s lies on
RoundSum(s, ties) ==
    LET q == SumSeq(s) \div FINE_PER_UNIT
        r == SumSeq(s) % FINE_PER_UNIT
    IN  IF 2 * r > FINE_PER_UNIT THEN q + 1
        ELSE IF 2 * r < FINE_PER_UNIT THEN q
        ELSE IF RoundsUp(ties, TieKey("sum", s)) THEN q + 1 ELSE q

RECURSIVE SelectSeqBy(_, _)
\* sub-sequence of s at the positions where keep is TRUE
SelectSeqBy(s, keep) ==
    IF s = << >> THEN << >>
    ELSE (IF Head(keep) THEN << Head(s) >> ELSE << >>)
         \o SelectSeqBy(Tail(s), Tail(keep))

\* str.lower() on an address: both spellings fold to the lower-case one
Lower(a) == IF a = NoAddr THEN NoAddr ELSE 2 * (a \div 2)

---------------------------------------------------------------------------
(* src/behavior.py *)

\* 1 ETH in wei, in the 10^13-wei units of the value field
WEI_PER_ETH == 100000

\* whether Decimal(wei_str) fails.  The except clause names
\* Decimal.InvalidOperation, which does not exist, so instead of returning
\* 0.0 the call raises AttributeError.
wei_to_eth_raises(wei_str) == wei_str = Malformed

\* wei string -> ETH (fine units); tx.get("value") or "0" comes first
wei_to_eth(wei_str) ==
    LET w == IF wei_str = None THEN 0 ELSE wei_str
    IN  w \div (WEI_PER_ETH \div Fine(ETH))

\* behavior.analyze_transactions' threshold for a "large" transfer
BEHAVIOR_LARGE_ETH == 10 * ETH

\* int(ts) for the timestamps behavior.analyze_transactions keeps: "if ts:"
\* drops None, int() drops what is not a number
ParsedTimestamps(txs) ==
    SelectSeqBy([i \in 1..Len(txs) |-> txs[i].timeStamp],
                [i \in 1..Len(txs) |-> txs[i].timeStamp \notin {None, Malformed}])

SeqMin(s) == CHOOSE x \in Range(s) : \A y \in Range(s) : x <= y
SeqMax(s) == CHOOSE x \in Range(s) : \A y \in Range(s) : x >= y

\* variant of Counterparties: the parties of every transfer are collected,
\* whether or not the transfer involves the wallet
Counterparties_all_parties(txs, wallet) ==
    (UNION { {Lower(txs[i].from), Lower(txs[i].to)} : i \in 1..Len(txs) })
        \ {NoAddr, Lower(wallet)}

\* the set of counterparties analyze_transactions collects
Counterparties(txs, wallet) ==
    LET addr_lower == Lower(wallet)
        ofTx(tx) ==
            LET from_addr == Lower(tx.from)
                to_addr == Lower(tx.to)
            IN  IF wallet # NoAddr
                THEN (IF from_addr = addr_lower THEN {to_addr} ELSE {})
                     \cup (IF to_addr = addr_lower THEN {from_addr} ELSE {})
                ELSE {from_addr, to_addr}
    IN  (UNION { ofTx(txs[i]) : i \in 1..Len(txs) }) \ {NoAddr}

\* the transfers' values the code adds up, in the order it adds them:
\* inbound (to the wallet) and outbound (from it, or all of them when no
\* wallet is given)
OutboundValues(txs, wallet) ==
    SelectSeqBy([i \in 1..Len(txs) |-> wei_to_eth(txs[i].value)],
                [i \in 1..Len(txs) |->
                    IF wallet # NoAddr THEN Lower(txs[i].from) = Lower(wallet)
                    ELSE TRUE])

\* variant of InboundValues: the receiver is compared with the wallet address
\* as spelled, without lower-casing
InboundValues_case_sensitive(txs, wallet) ==
    SelectSeqBy([i \in 1..Len(txs) |-> wei_to_eth(txs[i].value)],
                [i \in 1..Len(txs) |-> wallet # NoAddr /\ txs[i].to = wallet])

InboundValues(txs, wallet) ==
    SelectSeqBy([i \in 1..Len(txs) |-> wei_to_eth(txs[i].value)],
                [i \in 1..Len(txs) |->
                    wallet # NoAddr /\ Lower(txs[i].to) = Lower(wallet)])

\* analyze_transactions(transactions, wallet_address): the base metrics
analyze_transactions(txs, wallet, ties) ==
    LET addr_lower == Lower(wallet)
        value_eth == [i \in 1..Len(txs) |-> wei_to_eth(txs[i].value)]
        timestamps == ParsedTimestamps(txs)
    IN  [ total_txs |-> Len(txs),
          total_in_eth |-> RoundSum(InboundValues(txs, wallet), ties),
          total_out_eth |-> RoundSum(OutboundValues(txs, wallet), ties),
          unique_counterparties |-> Cardinality(Counterparties(txs, wallet)),
          first_seen |-> IF timestamps = << >> THEN None ELSE SeqMin(timestamps),
          last_seen |-> IF timestamps = << >> THEN None ELSE SeqMax(timestamps),
          large_transfers_count |->
              Cardinality({ i \in 1..Len(txs) : value_eth[i] >= Fine(BEHAVIOR_LARGE_ETH) }) ]

---------------------------------------------------------------------------
(* src/intelligence.py: thresholds *)

VERDICT_SMART_MONEY_ACCUMULATION == "SMART_MONEY_ACCUMULATION"
VERDICT_STEALTH_DISTRIBUTION == "STEALTH_DISTRIBUTION"
VERDICT_EXCHANGE_ROTATION == "EXCHANGE_ROTATION"
VERDICT_WHALE_DORMANT == "WHALE_DORMANT"
VERDICT_NEUTRAL == "NEUTRAL"

ENTITY_WHALE == "likely_individual_whale"
ENTITY_DISTRIBUTOR == "likely_distributor"
ENTITY_ROUTER == "likely_exchange_rotator"
ENTITY_DORMANT_WHALE == "likely_dormant_whale"
ENTITY_UNKNOWN == "unknown"

\* ratios, in 1/10000
INFLOW_OUTFLOW_RATIO_ACCUM == 15000
OUTFLOW_INFLOW_RATIO_DIST == 15000
\* ETH amounts
NET_INFLOW_MIN_ETH == 50 * ETH
NET_OUTFLOW_MIN_ETH == 50 * ETH
\* txs per day, in 1/10000
TX_FREQ_HIGH_TXS_PER_DAY == 5000
\* days
TX_FREQ_MIN_DAYS == 1
COUNTERPARTIES_MANY == 15
COUNTERPARTIES_FEW == 10
LARGE_TRANSFER_ETH == 10 * ETH
SPIKE_ETH == 25 * ETH
LARGE_TRANSFERS_MIN_COUNT == 2
WHALE_HISTORICAL_ETH == 200 * ETH
RECENCY_DAYS == 30
RECENCY_MAX_TXS_DORMANT == 3
RECENCY_MIN_HISTORICAL_TXS == 10
RECENCY_SPAN_DAYS_WHALE == 60
EXCHANGE_ROTATION_MIN_TXS == 30
TIMING_MIN_TXS_FOR_PATTERN == 5

---------------------------------------------------------------------------
(* src/intelligence.py: _compute_intelligence_metrics *)

\* the element at index k (from 0) of sorted(s)
SortedAt(s, k) ==
    CHOOSE x \in Range(s) :
        /\ Cardinality({ i \in 1..Len(s) : s[i] < x }) <= k
        /\ Cardinality({ i \in 1..Len(s) : s[i] <= x }) > k

\* int(ts) if ts is not None, None when int() fails
TsInt(ts) == IF ts \in {None, Malformed} THEN None ELSE ts

\* whether the metric computation raises: wei_to_eth does, on any transfer
\* whose value is not a number
metrics_raise(txs) == \E i \in 1..Len(txs) : wei_to_eth_raises(txs[i].value)

\* (a / b) if b > 0 else (a * 10.0 if a else 0): the ratio, rounded to four
\* decimals as the dict rounds it, or the synthetic ratio of a one-sided wallet
GuardedRatio(a, b) ==
    IF b > 0 THEN DivRound(a, b, 4)
    ELSE IF a # 0 THEN a * 10 ELSE 0

\* variant of ReportedRatio: the computed (synthetic) ratio is reported even
\* when the denominator is zero
ReportedRatio_synthetic(ratio, denominator) == ratio

\* the ratio as the metrics dict reports it: round(ratio, 4) if denominator > 0
\* else None (the synthetic ratio never leaves the function)
ReportedRatio(ratio, denominator) == IF denominator > 0 THEN ratio ELSE None

\* the values of the transfers of SPIKE_ETH or more, in list order
SpikeValues(txs) ==
    SelectSeqBy([i \in 1..Len(txs) |-> wei_to_eth(txs[i].value)],
                [i \in 1..Len(txs) |-> wei_to_eth(txs[i].value) >= Fine(SPIKE_ETH)])

\* the sums whose rounding is a decimal tie
SumTieKeys(txs, wallet) ==
    { TieKey("sum", s) :
        s \in { v \in { InboundValues(txs, wallet), OutboundValues(txs, wallet),
                        SpikeValues(txs) } : IsSumTie(v) } }

\* span_seconds = (last_ts - first_ts) if (first_ts and last_ts) else 0:
\* None and 0 are both falsy
span_seconds_of(first_ts, last_ts) ==
    IF first_ts \notin {None, 0} /\ last_ts \notin {None, 0}
    THEN last_ts - first_ts ELSE 0

\* staggered_exits: the median is out_values_sorted[len // 2]
staggered_exits_of(out_values, total_out) ==
    LET median_out == IF out_values = << >> THEN 0
                      ELSE SortedAt(out_values, Len(out_values) \div 2)
    IN  /\ Len(out_values) >= 5
        /\ median_out < Fine(LARGE_TRANSFER_ETH)
        /\ total_out > NET_OUTFLOW_MIN_ETH

\* variant of dormant_candidate_of: the size of the historical flow is not
\* asked for
dormant_candidate_of_quiet_only(total_txs, recent_tx_count, historically_large) ==
    /\ total_txs >= RECENCY_MIN_HISTORICAL_TXS
    /\ recent_tx_count <= RECENCY_MAX_TXS_DORMANT

\* variant of dormant_candidate_of: the length of the history is not asked for
dormant_candidate_of_any_history(total_txs, recent_tx_count, historically_large) ==
    recent_tx_count <= RECENCY_MAX_TXS_DORMANT /\ historically_large

\* dormant_candidate
dormant_candidate_of(total_txs, recent_tx_count, historically_large) ==
    /\ total_txs >= RECENCY_MIN_HISTORICAL_TXS
    /\ recent_tx_count <= RECENCY_MAX_TXS_DORMANT
    /\ historically_large

_compute_intelligence_metrics(txs, wallet, ties) ==
    LET base == analyze_transactions(txs, wallet, ties)
        wallet_lower == Lower(wallet)
        total_in == base.total_in_eth
        total_out == base.total_out_eth
        net_eth == total_in - total_out
        total_txs == base.total_txs
        first_ts == base.first_seen
        last_ts == base.last_seen
        span_seconds == span_seconds_of(first_ts, last_ts)
        \* span_days >= TX_FREQ_MIN_DAYS, on the seconds
        has_freq == span_seconds >= TX_FREQ_MIN_DAYS * SECONDS_PER_DAY
        tx_frequency == IF has_freq
                        THEN DivRound(total_txs * SECONDS_PER_DAY, span_seconds, 4)
                        ELSE 0
        now_ts == IF last_ts \notin {None, 0} THEN last_ts ELSE 0
        recent_cutoff_ts == IF now_ts # 0
                            THEN now_ts - RECENCY_DAYS * HOURS_PER_DAY * SECONDS_PER_HOUR
                            ELSE 0
        \* (the synthetic ratio of a one-sided wallet, total * 10.0, is computed
        \*  here in the code and dropped below: the dict reports None instead)
        inflow_outflow_ratio == GuardedRatio(total_in, total_out)
        outflow_inflow_ratio == GuardedRatio(total_out, total_in)
        idx == 1..Len(txs)
        value_eth == [i \in idx |-> wei_to_eth(txs[i].value)]
        ts_int == [i \in idx |-> TsInt(txs[i].timeStamp)]
        tx_timestamps == SelectSeqBy(ts_int, [i \in idx |-> ts_int[i] # None])
        recent_tx_count ==
            Cardinality({ i \in idx : ts_int[i] # None /\ ts_int[i] >= recent_cutoff_ts })
        spikes == SpikeValues(txs)
        out_values == SelectSeqBy(value_eth,
                         [i \in idx |-> wallet_lower # NoAddr
                                        /\ Lower(txs[i].from) = wallet_lower])
        in_values == SelectSeqBy(value_eth,
                         [i \in idx |-> wallet_lower # NoAddr
                                        /\ Lower(txs[i].to) = wallet_lower])
        staggered_exits == staggered_exits_of(out_values, total_out)
        hour(ts) == (ts \div SECONDS_PER_HOUR) % HOURS_PER_DAY
        hour_count(h) ==
            Cardinality({ i \in 1..Len(tx_timestamps) : hour(tx_timestamps[i]) = h })
        max_same_hour ==
            IF tx_timestamps = << >> THEN 0
            ELSE LET hs == { hour(tx_timestamps[i]) : i \in 1..Len(tx_timestamps) }
                     best == CHOOSE h \in hs : \A g \in hs : hour_count(h) >= hour_count(g)
                 IN  hour_count(best)
        repeated_timing == max_same_hour >= TIMING_MIN_TXS_FOR_PATTERN
        total_flow_eth == total_in + total_out
        historically_large == total_flow_eth >= WHALE_HISTORICAL_ETH
        dormant_candidate == dormant_candidate_of(total_txs, recent_tx_count,
                                                  historically_large)
    IN  [ total_in_eth |-> total_in,
          total_out_eth |-> total_out,
          net_eth |-> net_eth,
          inflow_outflow_ratio |-> ReportedRatio(inflow_outflow_ratio, total_out),
          outflow_inflow_ratio |-> ReportedRatio(outflow_inflow_ratio, total_in),
          total_txs |-> total_txs,
          \* round(span_days, 2), in hundredths of a day
          span_days |-> MulDivRound(span_seconds, 100, SECONDS_PER_DAY),
          tx_frequency |-> tx_frequency,
          unique_counterparties |-> base.unique_counterparties,
          large_transfers_count |-> base.large_transfers_count,
          spike_count |-> Len(spikes),
          spike_total_eth |-> RoundSum(spikes, ties),
          recent_tx_count |-> recent_tx_count,
          first_seen |-> first_ts,
          last_seen |-> last_ts,
          staggered_exits |-> staggered_exits,
          repeated_timing |-> repeated_timing,
          total_flow_eth |-> total_flow_eth,
          historically_large |-> historically_large,
          dormant_candidate |-> dormant_candidate,
          num_inflows |-> Len(in_values),
          num_outflows |-> Len(out_values) ]

---------------------------------------------------------------------------
(* src/intelligence.py: scoring rules.  A signal is [w, holds]: its weight *)
(* in hundredths and the value of its predicate on the metrics.            *)

\* m.get(ratio) or 0
OrZero(x) == IF x = None THEN 0 ELSE x

\* variant of SIGNALS_ACCUMULATION: the ratio signal reads the outflow/inflow
\* ratio
SIGNALS_ACCUMULATION_inverse_ratio(m) ==
    << [w |-> 30, holds |-> OrZero(m.outflow_inflow_ratio) >= INFLOW_OUTFLOW_RATIO_ACCUM],
       [w |-> 25, holds |-> m.net_eth >= NET_INFLOW_MIN_ETH],
       [w |-> 20, holds |-> m.num_inflows >= 3 /\ m.total_in_eth >= NET_INFLOW_MIN_ETH],
       [w |-> 15, holds |-> m.unique_counterparties <= COUNTERPARTIES_FEW
                            /\ m.total_in_eth >= LARGE_TRANSFER_ETH],
       [w |-> 10, holds |-> m.large_transfers_count >= LARGE_TRANSFERS_MIN_COUNT] >>

SIGNALS_ACCUMULATION(m) ==
    << [w |-> 30, holds |-> OrZero(m.inflow_outflow_ratio) >= INFLOW_OUTFLOW_RATIO_ACCUM],
       [w |-> 25, holds |-> m.net_eth >= NET_INFLOW_MIN_ETH],
       [w |-> 20, holds |-> m.num_inflows >= 3 /\ m.total_in_eth >= NET_INFLOW_MIN_ETH],
       [w |-> 15, holds |-> m.unique_counterparties <= COUNTERPARTIES_FEW
                            /\ m.total_in_eth >= LARGE_TRANSFER_ETH],
       [w |-> 10, holds |-> m.large_transfers_count >= LARGE_TRANSFERS_MIN_COUNT] >>

SIGNALS_DISTRIBUTION(m) ==
    << [w |-> 30, holds |-> OrZero(m.outflow_inflow_ratio) >= OUTFLOW_INFLOW_RATIO_DIST],
       [w |-> 25, holds |-> m.net_eth <= -NET_OUTFLOW_MIN_ETH],
       [w |-> 20, holds |-> m.staggered_exits],
       [w |-> 15, holds |-> m.num_outflows >= 5],
       [w |-> 10, holds |-> m.spike_count >= 1 /\ m.total_out_eth > m.total_in_eth] >>

\* variant of SIGNALS_EXCHANGE_ROTATION: the many-counterparties signal never
\* holds
SIGNALS_EXCHANGE_ROTATION_no_counterparties(m) ==
    << [w |-> 35, holds |-> FALSE],
       [w |-> 30, holds |-> m.tx_frequency >= TX_FREQ_HIGH_TXS_PER_DAY
                            \/ m.total_txs >= EXCHANGE_ROTATION_MIN_TXS],
       [w |-> 20, holds |-> m.total_flow_eth >= WHALE_HISTORICAL_ETH],
       [w |-> 15, holds |-> m.repeated_timing] >>

SIGNALS_EXCHANGE_ROTATION(m) ==
    << [w |-> 35, holds |-> m.unique_counterparties >= COUNTERPARTIES_MANY],
       [w |-> 30, holds |-> m.tx_frequency >= TX_FREQ_HIGH_TXS_PER_DAY
                            \/ m.total_txs >= EXCHANGE_ROTATION_MIN_TXS],
       [w |-> 20, holds |-> m.total_flow_eth >= WHALE_HISTORICAL_ETH],
       [w |-> 15, holds |-> m.repeated_timing] >>

SIGNALS_WHALE_DORMANT(m) ==
    << [w |-> 45, holds |-> m.dormant_candidate],
       [w |-> 30, holds |-> m.recent_tx_count <= RECENCY_MAX_TXS_DORMANT
                            /\ m.historically_large],
       [w |-> 25, holds |-> m.span_days >= RECENCY_SPAN_DAYS_WHALE * 100
                            /\ m.recent_tx_count <= 2] >>

\* variant of _score_signals: every signal that holds counts the same
_score_signals_unweighted(signals) ==
    SumSeq([i \in 1..Len(signals) |->
               IF signals[i].holds
               THEN SumSeq([j \in 1..Len(signals) |-> signals[j].w]) \div Len(signals)
               ELSE 0])

\* _score_signals: the sum of the weights of the signals that hold
_score_signals(signals) ==
    SumSeq([i \in 1..Len(signals) |-> IF signals[i].holds THEN signals[i].w ELSE 0])

\* MAX_SCORE_*: the sum of a table's weights
MAX_SCORE(signals) == SumSeq([i \in 1..Len(signals) |-> signals[i].w])

\* the order of the keys of the score dict
VerdictOrder ==
    << VERDICT_SMART_MONEY_ACCUMULATION, VERDICT_STEALTH_DISTRIBUTION,
       VERDICT_EXCHANGE_ROTATION, VERDICT_WHALE_DORMANT >>

Directional == Range(VerdictOrder)

SignalsOf(v, m) ==
    CASE v = VERDICT_SMART_MONEY_ACCUMULATION -> SIGNALS_ACCUMULATION(m)
      [] v = VERDICT_STEALTH_DISTRIBUTION -> SIGNALS_DISTRIBUTION(m)
      [] v = VERDICT_EXCHANGE_ROTATION -> SIGNALS_EXCHANGE_ROTATION(m)
      [] v = VERDICT_WHALE_DORMANT -> SIGNALS_WHALE_DORMANT(m)

\* min(1.0, round(raw score / max score, 4)), in 1/10000
NormalizedScore(signals) ==
    Min(ONE, RoundHalfEven(_score_signals(signals) * ONE, MAX_SCORE(signals)))

_compute_all_scores(m) == [v \in Directional |-> NormalizedScore(SignalsOf(v, m))]

---------------------------------------------------------------------------
(* src/intelligence.py: verdict and confidence *)

\* hundredths
CONFIDENCE_MIN == 30
CONFIDENCE_MAX == 95
CONFIDENCE_STRENGTH_WEIGHT == 50
CONFIDENCE_MARGIN_WEIGHT == 35
CONFIDENCE_DATA_WEIGHT == 15
DATA_QUALITY_TXS_FLOOR == 10
DATA_QUALITY_TXS_CEILING == 80
\* the floor a score must reach for a non-NEUTRAL verdict (1/10000)
MIN_SIGNAL == 3000
\* the 0.15 added to CONFIDENCE_MIN on the NEUTRAL path (hundredths)
NEUTRAL_BONUS == 15

\* variant of ArgMaxVerdict: on a tie the last key wins
ArgMaxVerdict_last(sc) ==
    LET i == CHOOSE k \in 1..Len(VerdictOrder) :
                 /\ \A j \in 1..Len(VerdictOrder) : sc[VerdictOrder[k]] >= sc[VerdictOrder[j]]
                 /\ \A j \in (k + 1)..Len(VerdictOrder) : sc[VerdictOrder[j]] < sc[VerdictOrder[k]]
    IN  VerdictOrder[i]

\* max(scores, key=scores.get): the first key, in dict order, with the
\* greatest score
ArgMaxVerdict(sc) ==
    LET i == CHOOSE k \in 1..Len(VerdictOrder) :
                 /\ \A j \in 1..Len(VerdictOrder) : sc[VerdictOrder[k]] >= sc[VerdictOrder[j]]
                 /\ \A j \in 1..(k - 1) : sc[VerdictOrder[j]] < sc[VerdictOrder[k]]
    IN  VerdictOrder[i]

\* variant of NeutralFallback: a score equal to the floor falls back too
NeutralFallback_inclusive(sc) == sc[ArgMaxVerdict(sc)] <= MIN_SIGNAL

NeutralFallback(sc) == sc[ArgMaxVerdict(sc)] < MIN_SIGNAL

\* variant of PickVerdict: the fallback does not replace the verdict
PickVerdict_no_floor(sc) == ArgMaxVerdict(sc)

PickVerdict(sc) == IF NeutralFallback(sc) THEN VERDICT_NEUTRAL ELSE ArgMaxVerdict(sc)

\* variant of entity_map: a dormant whale is reported as an individual whale
entity_map_dormant_as_whale(v) ==
    CASE v = VERDICT_SMART_MONEY_ACCUMULATION -> ENTITY_WHALE
      [] v = VERDICT_STEALTH_DISTRIBUTION -> ENTITY_DISTRIBUTOR
      [] v = VERDICT_EXCHANGE_ROTATION -> ENTITY_ROUTER
      [] v = VERDICT_WHALE_DORMANT -> ENTITY_WHALE
      [] v = VERDICT_NEUTRAL -> ENTITY_UNKNOWN

entity_map(v) ==
    CASE v = VERDICT_SMART_MONEY_ACCUMULATION -> ENTITY_WHALE
      [] v = VERDICT_STEALTH_DISTRIBUTION -> ENTITY_DISTRIBUTOR
      [] v = VERDICT_EXCHANGE_ROTATION -> ENTITY_ROUTER
      [] v = VERDICT_WHALE_DORMANT -> ENTITY_DORMANT_WHALE
      [] v = VERDICT_NEUTRAL -> ENTITY_UNKNOWN

\* variant of SecondScore: the runner-up is the greatest score below the best
\* one, so that tied leaders keep a margin
SecondScore_below_best(sc) ==
    LET best == -SortedAt([i \in 1..Len(VerdictOrder) |-> -sc[VerdictOrder[i]]], 0)
        lower == { sc[v] : v \in Directional } \ {best}
    IN  IF lower = {} THEN 0
        ELSE CHOOSE x \in lower : \A y \in lower : y <= x

\* ordered[1][1]: the second entry of the scores sorted in descending order
SecondScore(sc) ==
    LET s == [i \in 1..Len(VerdictOrder) |-> -sc[VerdictOrder[i]]]
    IN  -SortedAt(s, 1)

\* variant of Margin: ordered[0] is taken for the runner-up
Margin_first_entry(v, sc) ==
    LET s == [i \in 1..Len(VerdictOrder) |-> -sc[VerdictOrder[i]]]
    IN  Min(ONE, Max(0, sc[v] - (-SortedAt(s, 0))))

\* margin = min(1.0, max(0.0, strength - second_score)), in 1/10000
Margin(v, sc) == Min(ONE, Max(0, sc[v] - SecondScore(sc)))

\* data_quality as the fraction num/den
DataQuality(txs) ==
    IF txs <= DATA_QUALITY_TXS_FLOOR
    THEN [num |-> txs, den |-> DATA_QUALITY_TXS_FLOOR]
    ELSE LET span == DATA_QUALITY_TXS_CEILING - DATA_QUALITY_TXS_FLOOR
         IN  [num |-> Min(span, txs - DATA_QUALITY_TXS_FLOOR), den |-> span]

\* the weighted blend, as the fraction num/den of 1.0:
\*   (50 * strength + 35 * margin) / (100 * ONE) + 15 * dq.num / (100 * dq.den)
Blend(strength, margin, dq) ==
    [num |-> (CONFIDENCE_STRENGTH_WEIGHT * strength + CONFIDENCE_MARGIN_WEIGHT * margin)
                 * dq.den + CONFIDENCE_DATA_WEIGHT * dq.num * ONE,
     den |-> 100 * ONE * dq.den]

\* CONFIDENCE_MIN + (CONFIDENCE_MAX - CONFIDENCE_MIN) * blend, unrounded, in
\* hundredths, as the fraction num/den
RawConfidence(blend) ==
    LET g1 == GCD(blend.num, blend.den)
        n == blend.num \div g1
        d1 == blend.den \div g1
        g2 == GCD(CONFIDENCE_MAX - CONFIDENCE_MIN, d1)
        range == (CONFIDENCE_MAX - CONFIDENCE_MIN) \div g2
        d == d1 \div g2
    IN  [num |-> CONFIDENCE_MIN * d + range * n, den |-> d]

\* variant of _compute_confidence: the blend is added to the floor unscaled
\* and the result is not clamped
_compute_confidence_unclamped(v, sc, m, fallback) ==
    IF fallback THEN {CONFIDENCE_MIN + NEUTRAL_BONUS}
    ELSE LET blend == Blend(sc[v], Margin(v, sc), DataQuality(m.total_txs))
             g == GCD(blend.num, blend.den)
         IN  { CONFIDENCE_MIN + c : c \in RoundFloat(100 * (blend.num \div g), blend.den \div g) }

\* variant of _compute_confidence: the NEUTRAL path returns the floor itself
_compute_confidence_neutral_floor(v, sc, m, fallback) ==
    IF fallback THEN {CONFIDENCE_MIN}
    ELSE LET raw == RawConfidence(Blend(sc[v], Margin(v, sc), DataQuality(m.total_txs)))
         IN  IF raw.num >= CONFIDENCE_MAX * raw.den THEN {CONFIDENCE_MAX}
             ELSE IF raw.num <= CONFIDENCE_MIN * raw.den THEN {CONFIDENCE_MIN}
             ELSE RoundFloat(raw.num, raw.den)

\* _compute_confidence: the values round(min(MAX, max(MIN, confidence)), 2)
\* can take, in hundredths
_compute_confidence(v, sc, m, fallback) ==
    IF fallback THEN {CONFIDENCE_MIN + NEUTRAL_BONUS}
    ELSE LET raw == RawConfidence(Blend(sc[v], Margin(v, sc), DataQuality(m.total_txs)))
         IN  IF raw.num >= CONFIDENCE_MAX * raw.den THEN {CONFIDENCE_MAX}
             ELSE IF raw.num <= CONFIDENCE_MIN * raw.den THEN {CONFIDENCE_MIN}
             ELSE RoundFloat(raw.num, raw.den)

\* the float evaluation of the confidence: its operands are the strength,
\* the margin and the transfer count
ConfidenceTieKey(v, sc, m) ==
    TieKey("confidence", << sc[v], Margin(v, sc), m.total_txs >>)

SetMin(S) == CHOOSE x \in S : \A y \in S : x <= y
SetMax(S) == CHOOSE x \in S : \A y \in S : x >= y

\* f"{x:.1f}" and f"{x:.0f}" on an amount: tenths, and whole units
Fmt1(x) == IF x >= 0 THEN RoundHalfEven(x, ETH \div 10) ELSE -RoundHalfEven(-x, ETH \div 10)
Fmt0(x) == RoundHalfEven(x, ETH)

\* _behavior_summary: the verdict's template and the values it interpolates
_behavior_summary(v, m) ==
    CASE v = VERDICT_SMART_MONEY_ACCUMULATION ->
            [template |-> v, args |-> << Fmt1(m.net_eth), m.unique_counterparties >>]
      [] v = VERDICT_STEALTH_DISTRIBUTION ->
            [template |-> v, args |-> << Fmt1(m.net_eth) >>]
      [] v = VERDICT_EXCHANGE_ROTATION ->
            [template |-> v, args |-> << m.unique_counterparties, m.total_txs >>]
      [] v = VERDICT_WHALE_DORMANT ->
            [template |-> v, args |-> << Fmt0(m.total_flow_eth), m.recent_tx_count, RECENCY_DAYS >>]
      [] OTHER -> [template |-> VERDICT_NEUTRAL, args |-> << >>]

---------------------------------------------------------------------------
(* The inputs: the caller assembles the transfer list in batches.          *)

\* the two spellings of address k (k >= 1)
LowerSpelling(k) == 2 * k
MixedSpelling(k) == 2 * k + 1

\* the subject is address 1, two fixed counterparties are addresses 2 and 3,
\* and the distinct counterparties of a batch are addresses 11, 12, ...
SubjectLower == LowerSpelling(1)
SubjectMixed == MixedSpelling(1)
CounterpartyA == LowerSpelling(2)
CounterpartyB == LowerSpelling(3)
FreshCounterparty(n) == LowerSpelling(10 + n)

\* a tenth of an ETH, in the units of the value field
TENTH_ETH == WEI_PER_ETH \div 10

\* 00:00 of day 1, and 02:00 ninety days later
T_OLD == SECONDS_PER_DAY
T_NEW == 91 * SECONDS_PER_DAY + 2 * SECONDS_PER_HOUR

\* A batch template: size transfers of one direction, value and timestamp.
\*   dir "in": counterparty -> subject;  "out": subject -> counterparty;
\*   "other": between two third parties; "none": sender and receiver absent.
\*   cp "distinct": each transfer has a counterparty of its own; "same": all
\*   share one.
BatchTemplates ==
    [dir : {"in", "out"}, value : {5 * TENTH_ETH, 300 * TENTH_ETH},
     timeStamp : {T_OLD, T_NEW},
     size : {1, 10}, cp : {"distinct"}]
    \cup
    { [dir |-> "other", value |-> 5 * TENTH_ETH, timeStamp |-> T_OLD, size |-> 5, cp |-> "same"],
      [dir |-> "out", value |-> 95 * TENTH_ETH, timeStamp |-> Malformed, size |-> 5, cp |-> "same"],
      [dir |-> "in", value |-> Malformed, timeStamp |-> T_OLD, size |-> 1, cp |-> "same"],
      [dir |-> "none", value |-> None, timeStamp |-> None, size |-> 1, cp |-> "same"],
      [dir |-> "in", value |-> 100 * TENTH_ETH, timeStamp |-> 0, size |-> 1, cp |-> "same"] }

\* the i-th transfer of a batch appended to a list of length base; the
\* subject and the counterparties appear in both spellings
BatchTx(t, base, i) ==
    LET c == IF t.cp = "same" THEN CounterpartyA ELSE FreshCounterparty(base + i)
    IN  [ from |-> CASE t.dir = "in" -> c
                     [] t.dir = "out" -> SubjectMixed
                     [] t.dir = "other" -> CounterpartyA + 1
                     [] OTHER -> NoAddr,
          to |-> CASE t.dir = "in" -> SubjectLower
                   [] t.dir = "out" -> c + 1
                   [] t.dir = "other" -> CounterpartyB
                   [] OTHER -> NoAddr,
          value |-> t.value,
          timeStamp |-> t.timeStamp ]

Batch(t, base) == [i \in 1..t.size |-> BatchTx(t, base, i)]

Wallets == {SubjectLower, SubjectMixed, NoAddr}

---------------------------------------------------------------------------
(* The callers of the engine: POST /analyze (api.py) and the batch job     *)
(* (precompute.py)                                                         *)

HexChars == {"0", "f", "F"}
WhitespaceChars == {"\n"}
WalletChars == HexChars \cup WhitespaceChars \cup {"x"}

\* the number of hex digits of an address (40 in the source)
ADDRESS_HEX_LEN == 2
\* WALLET_MAX_LEN = 42: "0x" and the hex digits
WALLET_MAX_LEN == 2 + ADDRESS_HEX_LEN

\* a wallet that is JSON null, missing, or not a string
NoWallet == << "null" >>

WalletStrings == UNION { [1..n -> WalletChars] : n \in 0..MaxWalletLen }

\* str.strip()
RECURSIVE lstrip(_)
lstrip(s) == IF Len(s) > 0 /\ s[1] \in WhitespaceChars
             THEN lstrip(SubSeq(s, 2, Len(s))) ELSE s
RECURSIVE rstrip(_)
rstrip(s) == IF Len(s) > 0 /\ s[Len(s)] \in WhitespaceChars
             THEN rstrip(SubSeq(s, 1, Len(s) - 1)) ELSE s
strip(s) == rstrip(lstrip(s))

\* str.lower()
lower(s) == [i \in 1..Len(s) |-> IF s[i] = "F" THEN "f" ELSE s[i]]

\* 0x[a-fA-F0-9]{40} on the whole of s
FullMatch(s) ==
    /\ Len(s) = 2 + ADDRESS_HEX_LEN
    /\ s[1] = "0" /\ s[2] = "x"
    /\ \A i \in 3..Len(s) : s[i] \in HexChars

\* variant of WALLET_PATTERN_match: the pattern without its "$"
WALLET_PATTERN_match_unanchored(s) ==
    /\ Len(s) >= 2 + ADDRESS_HEX_LEN
    /\ FullMatch(SubSeq(s, 1, 2 + ADDRESS_HEX_LEN))

\* WALLET_PATTERN.match(s) for ^0x[a-fA-F0-9]{40}$: the "$" of Python's re
\* matches at the end of s and also before a newline that ends s
WALLET_PATTERN_match(s) ==
    \/ FullMatch(s)
    \/ Len(s) > 0 /\ s[Len(s)] = "\n" /\ FullMatch(SubSeq(s, 1, Len(s) - 1))

\* api._validate_wallet(wallet): (ok, error message)
_validate_wallet(wallet) ==
    IF wallet = NoWallet \/ Len(wallet) = 0
    THEN [ok |-> FALSE, err |-> "Missing or invalid wallet"]
    ELSE IF Len(strip(wallet)) > WALLET_MAX_LEN
    THEN [ok |-> FALSE, err |-> "Wallet address too long"]
    ELSE IF ~WALLET_PATTERN_match(strip(wallet))
    THEN [ok |-> FALSE,
          err |-> "Invalid wallet: must be 0x followed by 40 hex characters"]
    ELSE [ok |-> TRUE, err |-> "None"]

\* precompute._validate_wallet(addr)
precompute_validate_wallet(addr) ==
    addr # NoWallet /\ Len(addr) > 0 /\ WALLET_PATTERN_match(strip(addr))

\* api._error_response(message, code, status)
_error_response(message, code, status) ==
    [status |-> status, code |-> code, error |-> message]

\* the caller before a request: nothing fetched, called or written, and
\* the in-memory cache _analyze_cache holding the keys of cache
IdleCaller(cache) ==
    [ pc |-> "idle", entry |-> "none", body |-> "none", wallet |-> NoWallet,
      response |-> [unset |-> TRUE], fetched |-> {}, classified |-> {},
      memory_cache |-> cache, db_rows |-> {} ]

\* what the request body of POST /analyze can be
RequestBodies == {"not_json", "invalid_json", "not_object", "object"}

\* the call of the try block of analyze that raises, if one does
AnalyzeFailures == {"none", "fetch_transactions", "classify_wallet",
                    "save_wallet_intel"}

\* analyze from its step 2 on, for the validated and stripped wallet w:
\* db_row is whether the database holds a fresh row, entry_fresh whether an
\* entry of the in-memory cache is within its TTL, saved whether the write of
\* the wallet_intelligence row succeeds
analyze_validated(c, w, db_row, entry_fresh, failure, saved) ==
    LET key == lower(w)
        hit == db_row \/ (key \in c.memory_cache /\ entry_fresh)
        failed == _error_response("Analysis failed. Please try again later.",
                                  "ANALYSIS_ERROR", 500)
        looked == [c EXCEPT !.memory_cache = @ \ {key}]
        fetch == [looked EXCEPT !.fetched = @ \cup {w}]
        classify == [fetch EXCEPT !.classified = @ \cup {w}]
        intel == [classify EXCEPT !.db_rows = @ \cup {<< "whale_intel", w >>}]
        cached == [intel EXCEPT
                     !.memory_cache = @ \cup {key},
                     !.db_rows = IF saved
                                 THEN @ \cup {<< "wallet_intelligence", w >>}
                                 ELSE @]
    IN  IF hit THEN [c EXCEPT !.response = _error_response("None", "OK", 200)]
        ELSE IF failure = "fetch_transactions"
        THEN [fetch EXCEPT !.response = failed]
        ELSE IF failure = "classify_wallet"
        THEN [classify EXCEPT !.response = failed]
        ELSE IF failure = "save_wallet_intel"
        THEN [classify EXCEPT !.response = failed]
        ELSE [cached EXCEPT !.response = _error_response("None", "OK", 200)]

\* the failure of _analyze_and_save, if there is one
BatchFailures == {"none", "fetch_transactions", "classify_wallet",
                  "save_wallet_intelligence_cache"}

\* _analyze_and_save after the validation, for the stripped wallet w;
\* intel_saved is whether the whale_intel row is written
analyze_and_save_validated(c, w, failure, intel_saved) ==
    LET fetch == [c EXCEPT !.fetched = @ \cup {w}]
        classify == [fetch EXCEPT !.classified = @ \cup {w}]
        saved == [classify EXCEPT
                    !.db_rows = @ \cup {<< "wallet_intelligence", w >>}
                                  \cup (IF intel_saved
                                        THEN {<< "whale_intel", w >>} ELSE {})]
    IN  IF failure = "fetch_transactions"
        THEN [fetch EXCEPT !.response = [ok |-> FALSE,
                                         message |-> "Etherscan fetch failed"]]
        ELSE IF failure = "classify_wallet"
        THEN [classify EXCEPT !.response = [ok |-> FALSE,
                                            message |-> "Classification failed"]]
        ELSE IF failure = "save_wallet_intelligence_cache"
        THEN [classify EXCEPT !.response = [ok |-> FALSE,
                                            message |-> "DB save failed"]]
        ELSE [saved EXCEPT !.response = [ok |-> TRUE, message |-> "verdict"]]

---------------------------------------------------------------------------
(* classify_wallet as a state machine *)

\* the value of a local that has not been assigned yet
Unset == [unset |-> TRUE]

Init ==
    /\ transactions = << >>
    /\ wallet_address \in Wallets
    /\ n_batches = 0
    /\ pc = "Start"
    /\ metrics = Unset
    /\ scores = Unset
    /\ best_verdict = "unset"
    /\ neutral_fallback = FALSE
    /\ entity_inference = "unset"
    /\ data_quality = Unset
    /\ confidence = None
    /\ behavior_summary = Unset
    /\ result = Unset
    /\ float_ties = {}
    /\ invocation = 1
    /\ other_frame = Unset
    /\ caller = IdleCaller({})

\* the caller puts one more batch of transfers in the list
AppendBatch ==
    /\ pc = "Start"
    /\ n_batches < MaxBatches
    /\ \E t \in BatchTemplates :
          transactions' = transactions \o Batch(t, Len(transactions))
    /\ n_batches' = n_batches + 1
    /\ UNCHANGED << wallet_address, pc, metrics, scores, best_verdict,
                    neutral_fallback, entity_inference, data_quality,
                    confidence, behavior_summary, result, float_ties, outside >>

\* variant of ShortCircuit: the empty list gets the NEUTRAL-path confidence
ShortCircuit_neutral_constant ==
    /\ pc = "Start"
    /\ transactions = << >>
    /\ result' = [ address |-> wallet_address,
                   verdict |-> VERDICT_NEUTRAL,
                   confidence |-> CONFIDENCE_MIN + NEUTRAL_BONUS,
                   entity_inference |-> ENTITY_UNKNOWN,
                   entity_type |-> ENTITY_UNKNOWN,
                   behavior_summary |-> [template |-> "no_data", args |-> << >>],
                   metrics_used |-> << >> ]
    /\ pc' = "Done"
    /\ UNCHANGED << transactions, wallet_address, n_batches, metrics, scores,
                    best_verdict, neutral_fallback, entity_inference,
                    data_quality, confidence, behavior_summary, float_ties,
                    outside >>

\* "if not transactions": the canned result
ShortCircuit ==
    /\ pc = "Start"
    /\ transactions = << >>
    /\ result' = [ address |-> wallet_address,
                   verdict |-> VERDICT_NEUTRAL,
                   confidence |-> CONFIDENCE_MIN,
                   entity_inference |-> ENTITY_UNKNOWN,
                   entity_type |-> ENTITY_UNKNOWN,
                   behavior_summary |-> [template |-> "no_data", args |-> << >>],
                   metrics_used |-> << >> ]
    /\ pc' = "Done"
    /\ UNCHANGED << transactions, wallet_address, n_batches, metrics, scores,
                    best_verdict, neutral_fallback, entity_inference,
                    data_quality, confidence, behavior_summary, float_ties,
                    outside >>

\* metrics = _compute_intelligence_metrics(transactions, wallet_address);
\* an exception of wei_to_eth propagates out of classify_wallet
ComputeMetrics ==
    /\ pc = "Start"
    /\ transactions # << >>
    /\ IF metrics_raise(transactions)
       THEN /\ pc' = "Raised"
            /\ UNCHANGED << metrics, float_ties >>
       ELSE /\ \E ties \in ExtendTies(float_ties,
                                       SumTieKeys(transactions, wallet_address)) :
                  /\ float_ties' = ties
                  /\ metrics' = _compute_intelligence_metrics(transactions,
                                                              wallet_address, ties)
            /\ pc' = "MetricsComputed"
    /\ UNCHANGED << transactions, wallet_address, n_batches, scores, best_verdict,
                    neutral_fallback, entity_inference, data_quality,
                    confidence, behavior_summary, result, outside >>

\* scores = _compute_all_scores(metrics)
Score ==
    /\ pc = "MetricsComputed"
    /\ scores' = _compute_all_scores(metrics)
    /\ pc' = "Scored"
    /\ UNCHANGED << transactions, wallet_address, n_batches, metrics, best_verdict,
                    neutral_fallback, entity_inference, data_quality,
                    confidence, behavior_summary, result, float_ties, outside >>

\* best_verdict, the NEUTRAL fallback and the entity lookup
ChooseVerdict ==
    /\ pc = "Scored"
    /\ neutral_fallback' = NeutralFallback(scores)
    /\ best_verdict' = PickVerdict(scores)
    /\ entity_inference' = entity_map(PickVerdict(scores))
    /\ pc' = "VerdictChosen"
    /\ UNCHANGED << transactions, wallet_address, n_batches, metrics, scores,
                    data_quality, confidence, behavior_summary, result,
                    float_ties, outside >>

\* confidence = _compute_confidence(best_verdict, scores, metrics, neutral_fallback)
ComputeConfidence ==
    /\ pc = "VerdictChosen"
    /\ data_quality' = IF neutral_fallback THEN data_quality
                       ELSE DataQuality(metrics.total_txs)
    /\ LET outcomes == _compute_confidence(best_verdict, scores, metrics,
                                           neutral_fallback)
           key == ConfidenceTieKey(best_verdict, scores, metrics)
       IN  IF Cardinality(outcomes) = 1
           THEN /\ confidence' \in outcomes
                /\ UNCHANGED float_ties
           ELSE \E ties \in ExtendTies(float_ties, {key}) :
                   /\ float_ties' = ties
                   /\ confidence' = IF RoundsUp(ties, key)
                                    THEN SetMax(outcomes) ELSE SetMin(outcomes)
    /\ pc' = "ConfidenceComputed"
    /\ UNCHANGED << transactions, wallet_address, n_batches, metrics, scores,
                    best_verdict, neutral_fallback, entity_inference,
                    behavior_summary, result, outside >>

\* summary = _behavior_summary(best_verdict, metrics, best_score)
RenderSummary ==
    /\ pc = "ConfidenceComputed"
    /\ behavior_summary' = _behavior_summary(best_verdict, metrics)
    /\ pc' = "SummaryRendered"
    /\ UNCHANGED << transactions, wallet_address, n_batches, metrics, scores,
                    best_verdict, neutral_fallback, entity_inference,
                    data_quality, confidence, result, float_ties, outside >>

\* classify_wallet builds and returns the result dict
Return ==
    /\ pc = "SummaryRendered"
    /\ result' = [ address |-> wallet_address,
                   verdict |-> best_verdict,
                   confidence |-> confidence,
                   entity_inference |-> entity_inference,
                   entity_type |-> entity_inference,
                   behavior_summary |-> behavior_summary,
                   metrics_used |-> metrics ]
    /\ pc' = "Done"
    /\ UNCHANGED << transactions, wallet_address, n_batches, metrics, scores,
                    best_verdict, neutral_fallback, entity_inference,
                    data_quality, confidence, behavior_summary, float_ties,
                    outside >>

Classify ==
    \/ ShortCircuit
    \/ ComputeMetrics
    \/ Score
    \/ ChooseVerdict
    \/ ComputeConfidence
    \/ RenderSummary
    \/ Return

Next == AppendBatch \/ Classify

Spec == Init /\ [][Next]_vars

\* the positions of an invocation, and those where it has ended
Stages == {"Start", "MetricsComputed", "Scored", "VerdictChosen",
           "ConfidenceComputed", "SummaryRendered", "Done", "Raised"}
Ended == {"Done", "Raised"}

\* the running invocation moves on.  Every step of Classify changes pc, only
\* Classify changes pc, and Classify is enabled wherever the invocation has
\* not ended, so this is a step of Classify seen on pc alone.
Advance == pc \notin Ended /\ pc' \in Stages \ {pc}

\* classify_wallet has no loop but the two over the list, no wait and no
\* I/O: once called it runs until it returns or raises
LiveSpec == Init /\ [][Next]_vars /\ WF_pc(Advance)

---------------------------------------------------------------------------
(* Scenario D of the specification: 15 transfers of the subject, 250 ETH   *)
(* of flow, 90 days between the first and the last, one transfer in the    *)
(* last 30 days.                                                           *)

\* n copies of x
Repeat(x, n) == [i \in 1..n |-> x]

Reverse(s) == [i \in 1..Len(s) |-> s[Len(s) + 1 - i]]

\* values of the 15 transfers, each profile 250 ETH in all
ScenarioD_Profiles ==
    { Repeat(200 * TENTH_ETH, 10) \o Repeat(100 * TENTH_ETH, 5),
      Repeat(50 * TENTH_ETH, 14) \o << 1800 * TENTH_ETH >>,
      Repeat(300 * TENTH_ETH, 5) \o Repeat(100 * TENTH_ETH, 10),
      Repeat(5 * TENTH_ETH, 14) \o << 2430 * TENTH_ETH >> }

\* the list: the first n_out transfers are outbound, the others inbound; the
\* first 14 are four days apart from t0 on, the last is 90 days after t0
ScenarioD_List(values, n_out, cp, t0) ==
    [i \in 1..Len(values) |->
        LET c == IF cp = "same" THEN CounterpartyA ELSE FreshCounterparty(i)
        IN  [ from |-> IF i <= n_out THEN SubjectMixed ELSE c,
              to |-> IF i <= n_out THEN c + 1 ELSE SubjectLower,
              value |-> values[i],
              timeStamp |-> IF i < Len(values) THEN t0 + (i - 1) * 4 * SECONDS_PER_DAY
                            ELSE t0 + 90 * SECONDS_PER_DAY ] ]

ScenarioD_Lists ==
    { ScenarioD_List(IF rev THEN Reverse(v) ELSE v, n_out, cp, t0) :
        v \in ScenarioD_Profiles, rev \in BOOLEAN, n_out \in 0..15,
        cp \in {"same", "distinct"}, t0 \in {0, T_OLD} }

InitD ==
    /\ transactions \in ScenarioD_Lists
    /\ wallet_address \in {SubjectLower, SubjectMixed}
    /\ n_batches = 0
    /\ pc = "Start"
    /\ metrics = Unset
    /\ scores = Unset
    /\ best_verdict = "unset"
    /\ neutral_fallback = FALSE
    /\ entity_inference = "unset"
    /\ data_quality = Unset
    /\ confidence = None
    /\ behavior_summary = Unset
    /\ result = Unset
    /\ float_ties = {}
    /\ invocation = 1
    /\ other_frame = Unset
    /\ caller = IdleCaller({})

NextD ==
    \/ ComputeMetrics
    \/ Score
    \/ ChooseVerdict
    \/ ComputeConfidence
    \/ RenderSummary
    \/ Return

SpecD == InitD /\ [][NextD]_vars

---------------------------------------------------------------------------
(* Lists at the edges of the metric thresholds: one or two runs of equal   *)
(* transfers, with run lengths, values and timestamps on both sides of the *)
(* counts, amounts and windows the flags compare with.                     *)

\* 9.99999, 10, 20 and 40 ETH
EdgeValues == { 100 * TENTH_ETH - 1, 100 * TENTH_ETH, 200 * TENTH_ETH,
                400 * TENTH_ETH }

\* no timestamp, the epoch, day 1 at 00:00, one second less than a day
\* later, a day later, and one second less than 31 days later
EdgeTimestamps == { None, 0, T_OLD, T_OLD + SECONDS_PER_DAY - 1,
                    T_OLD + SECONDS_PER_DAY, T_OLD + 31 * SECONDS_PER_DAY - 1 }

EdgeTemplates ==
    [dir : {"in", "out", "other"}, value : EdgeValues,
     timeStamp : EdgeTimestamps, size : {1, 4, 9}, cp : {"distinct"}]

EdgeLists ==
    { Batch(t, 0) : t \in EdgeTemplates }
    \cup { Batch(t, 0) \o Batch(u, t.size) : t, u \in EdgeTemplates }

InitM ==
    /\ transactions \in EdgeLists
    /\ wallet_address = SubjectLower
    /\ n_batches = 0
    /\ pc = "Start"
    /\ metrics = Unset
    /\ scores = Unset
    /\ best_verdict = "unset"
    /\ neutral_fallback = FALSE
    /\ entity_inference = "unset"
    /\ data_quality = Unset
    /\ confidence = None
    /\ behavior_summary = Unset
    /\ result = Unset
    /\ float_ties = {}
    /\ invocation = 1
    /\ other_frame = Unset
    /\ caller = IdleCaller({})

SpecM == InitM /\ [][NextD]_vars

---------------------------------------------------------------------------
(* Scenario B of the specification: 5 inbound transfers of 30 ETH each     *)
(* from 5 distinct counterparties, no outbound transfer, 10 days between   *)
(* the first and the last.                                                 *)

\* when, after the first transfer, one of the three middle transfers is made
ScenarioB_Offsets ==
    { SECONDS_PER_DAY, 5 * SECONDS_PER_DAY + 3 * SECONDS_PER_HOUR,
      9 * SECONDS_PER_DAY + 7 * SECONDS_PER_HOUR }

\* the list: transfer i comes from a counterparty of its own, every second
\* one spelled in mixed case
ScenarioB_List(middle, t0) ==
    LET offsets == << 0 >> \o middle \o << 10 * SECONDS_PER_DAY >>
    IN  [i \in 1..5 |->
            [ from |-> FreshCounterparty(i) + (i % 2),
              to |-> SubjectLower,
              value |-> 300 * TENTH_ETH,
              timeStamp |-> t0 + offsets[i] ] ]

ScenarioB_Lists ==
    { IF rev THEN Reverse(ScenarioB_List(middle, t0)) ELSE ScenarioB_List(middle, t0) :
        middle \in [1..3 -> ScenarioB_Offsets], rev \in BOOLEAN, t0 \in {0, T_OLD} }

InitB ==
    /\ transactions \in ScenarioB_Lists
    /\ wallet_address \in {SubjectLower, SubjectMixed}
    /\ n_batches = 0
    /\ pc = "Start"
    /\ metrics = Unset
    /\ scores = Unset
    /\ best_verdict = "unset"
    /\ neutral_fallback = FALSE
    /\ entity_inference = "unset"
    /\ data_quality = Unset
    /\ confidence = None
    /\ behavior_summary = Unset
    /\ result = Unset
    /\ float_ties = {}
    /\ invocation = 1
    /\ other_frame = Unset
    /\ caller = IdleCaller({})

SpecB == InitB /\ [][NextD]_vars

---------------------------------------------------------------------------
(* Scenario C of the specification: 40 transfers of the subject within 5   *)
(* days, 20 distinct counterparties, inbound and outbound value roughly    *)
(* balanced.                                                               *)

\* the list: the first n_out transfers are outbound, the others inbound;
\* transfer i deals with counterparty i mod 20; the times run from t0 to five
\* days later, either spread evenly or all at 00:00
ScenarioC_List(n_out, v_out, v_in, midnight, t0) ==
    [i \in 1..40 |->
        LET c == FreshCounterparty((i % 20) + 1)
        IN  [ from |-> IF i <= n_out THEN SubjectMixed ELSE c,
              to |-> IF i <= n_out THEN c + (i % 2) ELSE SubjectLower,
              value |-> IF i <= n_out THEN v_out ELSE v_in,
              timeStamp |-> IF midnight
                            THEN t0 + ((i - 1) % 6) * SECONDS_PER_DAY
                            ELSE t0 + ((i - 1) * 5 * SECONDS_PER_DAY) \div 39 ] ]

ScenarioC_Values == { 5 * TENTH_ETH, 60 * TENTH_ETH, 75 * TENTH_ETH, 300 * TENTH_ETH }

ScenarioC_Lists ==
    { ScenarioC_List(n_out, v_out, v_in, midnight, t0) :
        n_out \in {17, 20, 23}, v_out \in ScenarioC_Values, v_in \in ScenarioC_Values,
        midnight \in BOOLEAN, t0 \in {0, T_OLD} }

InitC ==
    /\ transactions \in ScenarioC_Lists
    /\ wallet_address \in {SubjectLower, SubjectMixed}
    /\ n_batches = 0
    /\ pc = "Start"
    /\ metrics = Unset
    /\ scores = Unset
    /\ best_verdict = "unset"
    /\ neutral_fallback = FALSE
    /\ entity_inference = "unset"
    /\ data_quality = Unset
    /\ confidence = None
    /\ behavior_summary = Unset
    /\ result = Unset
    /\ float_ties = {}
    /\ invocation = 1
    /\ other_frame = Unset
    /\ caller = IdleCaller({})

SpecC == InitC /\ [][NextD]_vars

---------------------------------------------------------------------------
(* A caller that calls classify_wallet twice for the same subject: with    *)
(* the same list, with the list in another order, or with the value of one *)
(* inbound transfer raised.                                                *)

\* the transfers the caller's list is made of: three inbound ones that add
\* up to 49.99995 ETH and two outbound ones, each with a counterparty and a
\* day of its own
CallTransfers ==
    { [ from |-> FreshCounterparty(1), to |-> SubjectLower,
        value |-> 100 * TENTH_ETH, timeStamp |-> SECONDS_PER_DAY ],
      [ from |-> FreshCounterparty(2) + 1, to |-> SubjectLower,
        value |-> 300 * TENTH_ETH + 55, timeStamp |-> 2 * SECONDS_PER_DAY ],
      [ from |-> FreshCounterparty(3), to |-> SubjectMixed,
        value |-> 100 * TENTH_ETH - 60, timeStamp |-> 3 * SECONDS_PER_DAY ],
      [ from |-> SubjectMixed, to |-> FreshCounterparty(4),
        value |-> 300 * TENTH_ETH, timeStamp |-> 4 * SECONDS_PER_DAY ],
      [ from |-> SubjectLower, to |-> FreshCounterparty(5),
        value |-> 55, timeStamp |-> 5 * SECONDS_PER_DAY ] }

\* the lists of up to MaxCallLen different transfers, in any order
CallLists ==
    UNION { { l \in [1..n -> CallTransfers] :
                \A i, j \in 1..n : i # j => l[i] # l[j] } : n \in 0..MaxCallLen }

\* the list s in every order
Orderings(s) == { [i \in 1..Len(s) |-> s[f[i]]] : f \in Permutations(1..Len(s)) }

\* by how much (units of the value field) the caller raises a transfer
CallRaises == { 1, 200 * TENTH_ETH }

\* the frame of the running invocation, as a record
FrameRecord ==
    [ transactions |-> transactions, wallet_address |-> wallet_address,
      pc |-> pc, metrics |-> metrics, scores |-> scores,
      best_verdict |-> best_verdict, neutral_fallback |-> neutral_fallback,
      entity_inference |-> entity_inference, data_quality |-> data_quality,
      confidence |-> confidence, behavior_summary |-> behavior_summary,
      result |-> result ]

InitA ==
    /\ transactions \in CallLists
    /\ wallet_address \in {SubjectLower, SubjectMixed}
    /\ n_batches = 0
    /\ pc = "Start"
    /\ metrics = Unset
    /\ scores = Unset
    /\ best_verdict = "unset"
    /\ neutral_fallback = FALSE
    /\ entity_inference = "unset"
    /\ data_quality = Unset
    /\ confidence = None
    /\ behavior_summary = Unset
    /\ result = Unset
    /\ float_ties = {}
    /\ invocation = 1
    /\ other_frame = Unset
    /\ caller = IdleCaller({})

\* the second call is entered with the list txs: a new frame, none of the
\* first call's locals in it; the first call's frame is kept for comparison
EnterSecondCall(txs) ==
    /\ pc = "Done"
    /\ invocation = 1
    /\ other_frame' = FrameRecord
    /\ invocation' = 2
    /\ transactions' = txs
    /\ pc' = "Start"
    /\ metrics' = Unset
    /\ scores' = Unset
    /\ best_verdict' = "unset"
    /\ neutral_fallback' = FALSE
    /\ entity_inference' = "unset"
    /\ data_quality' = Unset
    /\ confidence' = None
    /\ behavior_summary' = Unset
    /\ result' = Unset
    /\ UNCHANGED << wallet_address, n_batches, float_ties, caller >>

\* the caller calls again with the identical list
CallAgain == EnterSecondCall(transactions)

\* the caller calls again with the same transfers in another order
CallPermuted ==
    \E txs \in Orderings(transactions) \ {transactions} : EnterSecondCall(txs)

\* the caller calls again with the value of one inbound transfer raised
CallRaised ==
    \E i \in 1..Len(transactions), by \in CallRaises :
        /\ Lower(transactions[i].to) = Lower(wallet_address)
        /\ EnterSecondCall([transactions EXCEPT ![i].value = @ + by])

NextA == Classify \/ CallAgain \/ CallPermuted \/ CallRaised

SpecA == InitA /\ [][NextA]_vars

---------------------------------------------------------------------------
(* Two calls on lists that differ by one transfer between third parties.   *)

\* the values of the added transfer: absent, not a number, 0.5 ETH, 10 ETH
\* (a large transfer) and 30 ETH (a spike)
ThirdPartyValues == { None, Malformed, 5 * TENTH_ETH, 100 * TENTH_ETH,
                      300 * TENTH_ETH }

\* its timestamps: absent, not a number, the epoch, noon before the first
\* day, 00:00 of day 6 and 02:00 of day 91
ThirdPartyStamps == { None, Malformed, 0, SECONDS_PER_DAY \div 2,
                      6 * SECONDS_PER_DAY, T_NEW }

\* transfers in which the subject is neither sender nor receiver
ThirdPartyTransfers ==
    [ from : {CounterpartyA + 1}, to : {CounterpartyB, NoAddr},
      value : ThirdPartyValues, timeStamp : ThirdPartyStamps ]

\* the first call's lists: the caller's lists, and two lists of four
\* transfers stamped at the same hour of the day
ThirdPartyBaseLists ==
    CallLists
    \cup { Batch([dir |-> d, value |-> 300 * TENTH_ETH, timeStamp |-> T_OLD,
                  size |-> 4, cp |-> "distinct"], 0) : d \in {"in", "out"} }

InitT ==
    /\ transactions \in ThirdPartyBaseLists
    /\ wallet_address = SubjectLower
    /\ n_batches = 0
    /\ pc = "Start"
    /\ metrics = Unset
    /\ scores = Unset
    /\ best_verdict = "unset"
    /\ neutral_fallback = FALSE
    /\ entity_inference = "unset"
    /\ data_quality = Unset
    /\ confidence = None
    /\ behavior_summary = Unset
    /\ result = Unset
    /\ float_ties = {}
    /\ invocation = 1
    /\ other_frame = Unset
    /\ caller = IdleCaller({})

\* the caller calls again with one third-party transfer more, at the head
\* or at the end of the list
CallWithThirdParty ==
    \E tp \in ThirdPartyTransfers :
        \/ EnterSecondCall(<< tp >> \o transactions)
        \/ EnterSecondCall(Append(transactions, tp))

NextT == Classify \/ CallWithThirdParty

SpecT == InitT /\ [][NextT]_vars

---------------------------------------------------------------------------
(* Two invocations of classify_wallet for different wallets, run by two    *)
(* threads.  The variables of the frame are the running invocation's,      *)
(* other_frame is the suspended one's; the scheduler may switch between    *)
(* them at every stage.  The module keeps no state of its own: everything  *)
(* an invocation writes is a local of its frame.                           *)

\* whether the transfers of s are in the order of their time stamps
InTimeOrder(s) == \A i, j \in 1..Len(s) : i < j => s[i].timeStamp < s[j].timeStamp

\* the lists the two threads classify
ConcurrentLists == { l \in CallLists : InTimeOrder(l) }

\* the wallet of the second thread: a counterparty of the first one's
OtherWallet == FreshCounterparty(2)

\* the frame of an invocation that has been called and has not run yet
NewFrame(txs, wallet) ==
    [ transactions |-> txs, wallet_address |-> wallet,
      pc |-> "Start", metrics |-> Unset, scores |-> Unset,
      best_verdict |-> "unset", neutral_fallback |-> FALSE,
      entity_inference |-> "unset", data_quality |-> Unset,
      confidence |-> None, behavior_summary |-> Unset,
      result |-> Unset ]

InitP ==
    /\ transactions \in ConcurrentLists
    /\ wallet_address = SubjectMixed
    /\ n_batches = 0
    /\ pc = "Start"
    /\ metrics = Unset
    /\ scores = Unset
    /\ best_verdict = "unset"
    /\ neutral_fallback = FALSE
    /\ entity_inference = "unset"
    /\ data_quality = Unset
    /\ confidence = None
    /\ behavior_summary = Unset
    /\ result = Unset
    /\ float_ties = {}
    /\ invocation = 1
    /\ other_frame \in { NewFrame(txs, OtherWallet) : txs \in ConcurrentLists }
    /\ caller = IdleCaller({})

\* variant of Switch: metrics is a variable of the module, which the thread
\* that resumes finds as the other one left it
Switch_shared_metrics ==
    /\ other_frame.pc \notin Ended
    /\ other_frame' = FrameRecord
    /\ invocation' = 3 - invocation
    /\ transactions' = other_frame.transactions
    /\ wallet_address' = other_frame.wallet_address
    /\ pc' = other_frame.pc
    /\ scores' = other_frame.scores
    /\ best_verdict' = other_frame.best_verdict
    /\ neutral_fallback' = other_frame.neutral_fallback
    /\ entity_inference' = other_frame.entity_inference
    /\ data_quality' = other_frame.data_quality
    /\ confidence' = other_frame.confidence
    /\ behavior_summary' = other_frame.behavior_summary
    /\ result' = other_frame.result
    /\ UNCHANGED << metrics, n_batches, float_ties, caller >>

\* the scheduler suspends the running invocation and resumes the other one:
\* each finds its own locals as it left them
Switch ==
    /\ other_frame.pc \notin Ended
    /\ other_frame' = FrameRecord
    /\ invocation' = 3 - invocation
    /\ transactions' = other_frame.transactions
    /\ wallet_address' = other_frame.wallet_address
    /\ pc' = other_frame.pc
    /\ metrics' = other_frame.metrics
    /\ scores' = other_frame.scores
    /\ best_verdict' = other_frame.best_verdict
    /\ neutral_fallback' = other_frame.neutral_fallback
    /\ entity_inference' = other_frame.entity_inference
    /\ data_quality' = other_frame.data_quality
    /\ confidence' = other_frame.confidence
    /\ behavior_summary' = other_frame.behavior_summary
    /\ result' = other_frame.result
    /\ UNCHANGED << n_batches, float_ties, caller >>

NextP == Classify \/ Switch

SpecP == InitP /\ [][NextP]_vars

\* classify_wallet from the scores on: verdict, confidence, entity, summary
classify_scored(wallet, m, sc, ties) ==
    LET fallback == NeutralFallback(sc)
        v == PickVerdict(sc)
        outcomes == _compute_confidence(v, sc, m, fallback)
        c == IF Cardinality(outcomes) = 1 THEN SetMin(outcomes)
             ELSE IF RoundsUp(ties, ConfidenceTieKey(v, sc, m))
                  THEN SetMax(outcomes) ELSE SetMin(outcomes)
    IN  [ address |-> wallet,
          verdict |-> v,
          confidence |-> c,
          entity_inference |-> entity_map(v),
          entity_type |-> entity_map(v),
          behavior_summary |-> _behavior_summary(v, m),
          metrics_used |-> m ]

\* classify_wallet from the metrics on: the scores, then the rest
classify_measured(wallet, m, ties) ==
    classify_scored(wallet, m, _compute_all_scores(m), ties)

\* what classify_wallet(txs, wallet) returns when nothing else runs, the
\* float evaluations falling as ties records them
classify_wallet(txs, wallet, ties) ==
    IF txs = << >>
    THEN [ address |-> wallet,
           verdict |-> VERDICT_NEUTRAL,
           confidence |-> CONFIDENCE_MIN,
           entity_inference |-> ENTITY_UNKNOWN,
           entity_type |-> ENTITY_UNKNOWN,
           behavior_summary |-> [template |-> "no_data", args |-> << >>],
           metrics_used |-> << >> ]
    ELSE classify_measured(wallet,
                           _compute_intelligence_metrics(txs, wallet, ties),
                           ties)

---------------------------------------------------------------------------
(* One request to a caller of the engine, from any content of the          *)
(* in-memory cache.  The engine is seen from the caller: whether it is     *)
(* called, with which address, and whether the call raises.                *)

\* the keys _analyze_cache can hold when the request arrives
CachedKeys == { << "0", "x" >> \o h : h \in [1..ADDRESS_HEX_LEN -> {"f"}] }

InitV ==
    /\ transactions = << >>
    /\ wallet_address = NoAddr
    /\ n_batches = 0
    /\ pc = "Start"
    /\ metrics = Unset
    /\ scores = Unset
    /\ best_verdict = "unset"
    /\ neutral_fallback = FALSE
    /\ entity_inference = "unset"
    /\ data_quality = Unset
    /\ confidence = None
    /\ behavior_summary = Unset
    /\ result = Unset
    /\ float_ties = {}
    /\ invocation = 1
    /\ other_frame = Unset
    /\ caller \in { IdleCaller(cache) : cache \in SUBSET CachedKeys }

\* POST /analyze
analyze ==
    /\ caller.pc = "idle"
    /\ \E body \in RequestBodies, wallet \in WalletStrings \cup {NoWallet} :
          /\ body # "object" => wallet = NoWallet
          /\ LET c == [caller EXCEPT !.pc = "responded", !.entry = "analyze",
                                     !.body = body, !.wallet = wallet]
             IN  IF body = "not_json"
                 THEN caller' = [c EXCEPT !.response =
                        _error_response("Content-Type must be application/json",
                                        "INVALID_INPUT", 400)]
                 ELSE IF body = "invalid_json"
                 THEN caller' = [c EXCEPT !.response =
                        _error_response("Invalid JSON body", "INVALID_JSON", 400)]
                 ELSE IF body = "not_object"
                 THEN caller' = [c EXCEPT !.response =
                        _error_response("Body must be a JSON object",
                                        "INVALID_INPUT", 400)]
                 ELSE IF ~_validate_wallet(wallet).ok
                 THEN caller' = [c EXCEPT !.response =
                        _error_response(_validate_wallet(wallet).err,
                                        "VALIDATION_ERROR", 400)]
                 ELSE \E db_row, entry_fresh, saved \in BOOLEAN,
                         failure \in AnalyzeFailures :
                        caller' = analyze_validated(c, strip(wallet), db_row,
                                                    entry_fresh, failure, saved)
    /\ UNCHANGED << frame, n_batches, float_ties, invocation, other_frame >>

\* precompute._analyze_and_save(wallet)
_analyze_and_save ==
    /\ caller.pc = "idle"
    /\ \E wallet \in WalletStrings :
          LET c == [caller EXCEPT !.pc = "responded",
                                  !.entry = "_analyze_and_save",
                                  !.wallet = wallet]
          IN  IF ~precompute_validate_wallet(strip(wallet))
              THEN caller' = [c EXCEPT !.response =
                                [ok |-> FALSE, message |-> "Invalid address"]]
              ELSE \E failure \in BatchFailures, intel_saved \in BOOLEAN :
                     caller' = analyze_and_save_validated(c, strip(wallet),
                                                          failure, intel_saved)
    /\ UNCHANGED << frame, n_batches, float_ties, invocation, other_frame >>

NextV == analyze \/ _analyze_and_save

SpecV == InitV /\ [][NextV]_vars

---------------------------------------------------------------------------
(* POST /analyze over time: the in-memory cache _analyze_cache, the        *)
(* wallet_intelligence table it shares with the batch job, and the clock.  *)

\* ANALYZE_CACHE_TTL, in ticks of the clock (the environment sets it; the
\* default is 300 seconds)
ANALYZE_CACHE_TTL == 2

\* the clock runs from 0 to MaxClock
MaxClock == 3

\* the wallets of the requests: one address in two spellings, and a string
\* that is not an address
ServedWallets == { << "0", "x", "f", "f" >>, << "0", "x", "F", "f" >>,
                   << "0", "x", "f" >> }

\* how the request to Etherscan ends: a list, a status other than "1", a
\* timeout, a failed request, a response that cannot be parsed
FetchOutcomes == {"ok", "api_error", "timeout", "request_failed", "parse_error"}

\* what Etherscan has for the wallet: nothing, five inbound transfers of
\* 30 ETH, or a transfer whose value is not a number
UpstreamLists ==
    { << >>,
      ScenarioB_List([i \in 1..3 |-> SECONDS_PER_DAY], T_OLD),
      << [ from |-> CounterpartyA, to |-> SubjectLower, value |-> Malformed,
           timeStamp |-> T_OLD ] >> }

\* a request to Etherscan: how it ends and, when it ends well, the list
Fetches ==
    { f \in [outcome : FetchOutcomes, upstream : UpstreamLists] :
        f.outcome # "ok" => f.upstream = << >> }

\* data_fetch.fetch_transactions: the list, or the empty list on any error
fetch_transactions(outcome, upstream) ==
    IF outcome = "ok" THEN upstream ELSE << >>

\* the engine's address for a wallet string: its spelling is kept
AddressOf(w) == IF lower(w) = w THEN SubjectLower ELSE SubjectMixed

\* intelligence.classify_wallet(transactions, wallet) for the lists that do
\* not make it raise
ClassifyResults ==
    [ txs \in { l \in UpstreamLists : ~metrics_raise(l) } |->
        [ w \in { strip(s) : s \in ServedWallets } |->
            [classify_wallet(txs, AddressOf(w), {}) EXCEPT !.address = w] ] ]

\* api._format_ai_response; the confidence is rounded to two decimals, which
\* the engine's confidence (hundredths) already is
_format_ai_response(address, verdict, conf, entity_type, summary, last_updated) ==
    [ address |-> address, verdict |-> verdict, confidence |-> conf,
      entity_type |-> entity_type, summary |-> summary,
      last_updated |-> last_updated ]

\* api._row_to_ai_response
_row_to_ai_response(row) ==
    _format_ai_response(row.address, row.verdict, row.confidence,
                        row.entity_type, row.summary, row.last_updated)

\* db.get_wallet_intelligence_cache(address, max_age_seconds): the rows with
\* that address updated less than max_age ago; none when the database cannot
\* be read
get_wallet_intelligence_cache(rows, address, max_age, now, db_ok) ==
    IF db_ok
    THEN { r \in rows : r.address = address /\ r.last_updated > now - max_age }
    ELSE {}

\* db.save_wallet_intelligence_cache: upsert on the address
save_wallet_intelligence_cache(rows, row) ==
    { r \in rows : r.address # row.address } \cup {row}

\* variant of _get_cached_analyze: an entry as old as the TTL has expired
_get_cached_analyze_expired_at_ttl(c, wallet, db_ok) ==
    LET row == get_wallet_intelligence_cache(c.db_rows, wallet, ANALYZE_CACHE_TTL,
                                             c.now, db_ok)
        entry == { e \in c.memory_cache : e.key = lower(wallet) }
    IN  IF row # {}
        THEN [ hit |-> TRUE, source |-> "db", memory_cache |-> c.memory_cache,
               result |-> _row_to_ai_response(CHOOSE r \in row : TRUE) ]
        ELSE IF entry = {} \/ \E e \in entry : c.now - e.cached_at >= ANALYZE_CACHE_TTL
        THEN [ hit |-> FALSE, source |-> "none",
               memory_cache |-> c.memory_cache \ entry, result |-> Unset ]
        ELSE [ hit |-> TRUE, source |-> "memory", memory_cache |-> c.memory_cache,
               result |-> (CHOOSE e \in entry : TRUE).result ]

\* api._get_cached_analyze(wallet): the database first, then the in-memory
\* cache, whose entry is dropped when it is older than the TTL
_get_cached_analyze(c, wallet, db_ok) ==
    LET row == get_wallet_intelligence_cache(c.db_rows, wallet, ANALYZE_CACHE_TTL,
                                             c.now, db_ok)
        entry == { e \in c.memory_cache : e.key = lower(wallet) }
    IN  IF row # {}
        THEN [ hit |-> TRUE, source |-> "db", memory_cache |-> c.memory_cache,
               result |-> _row_to_ai_response(CHOOSE r \in row : TRUE) ]
        ELSE IF entry = {} \/ \E e \in entry : c.now - e.cached_at > ANALYZE_CACHE_TTL
        THEN [ hit |-> FALSE, source |-> "none",
               memory_cache |-> c.memory_cache \ entry, result |-> Unset ]
        ELSE [ hit |-> TRUE, source |-> "memory", memory_cache |-> c.memory_cache,
               result |-> (CHOOSE e \in entry : TRUE).result ]

\* variant of _set_cached_analyze: only the database is written
_set_cached_analyze_db_only(c, wallet, ai_response, db_ok) ==
    [ memory_cache |-> c.memory_cache,
      db_rows |->
          IF db_ok
          THEN save_wallet_intelligence_cache(c.db_rows,
                   [ai_response EXCEPT !.last_updated = c.now])
          ELSE c.db_rows ]

\* api._set_cached_analyze(wallet, ai_response): the in-memory entry is
\* always written, the row when the database can be written
_set_cached_analyze(c, wallet, ai_response, db_ok) ==
    [ memory_cache |->
          { e \in c.memory_cache : e.key # lower(wallet) }
          \cup { [ key |-> lower(wallet), result |-> ai_response,
                   cached_at |-> c.now ] },
      db_rows |->
          IF db_ok
          THEN save_wallet_intelligence_cache(c.db_rows,
                   [ai_response EXCEPT !.last_updated = c.now])
          ELSE c.db_rows ]

\* a 200 response with a JSON body
OkResponse(body) == [status |-> 200, code |-> "OK", error |-> "None", body |-> body]

\* the server before the first request, at time 0: nothing cached; engine
\* is intelligence.classify_wallet, the function the two entry points call
IdleServer ==
    [ now |-> 0, engine |-> ClassifyResults, served |-> 0, entry |-> "none", body |-> "none",
      wallet |-> NoWallet, response |-> Unset, source |-> "none",
      fetched |-> {}, classified |-> {}, fetch_result |-> << >>,
      memory_cache |-> {}, db_rows |-> {}, whale_intel |-> {} ]

\* what analyze does on a cache miss for the validated and stripped wallet
\* w, the lookup made: f is the request to Etherscan, db_write whether the
\* database takes the writes
analyze_miss(looked, w, f, db_write) ==
    LET txs == fetch_transactions(f.outcome, f.upstream)
        fetch == [looked EXCEPT !.fetched = {w}, !.fetch_result = txs]
        classify == [fetch EXCEPT !.classified = {w}]
        failed == _error_response("Analysis failed. Please try again later.",
                                  "ANALYSIS_ERROR", 500)
    IN  IF metrics_raise(txs)
        THEN [classify EXCEPT !.response = failed]
        ELSE LET res == looked.engine[txs][w]
                 intel == [classify EXCEPT
                              !.whale_intel = IF db_write THEN @ \cup {w} ELSE @]
                 ai_response ==
                     _format_ai_response(res.address, res.verdict,
                                         res.confidence, res.entity_type,
                                         res.behavior_summary, looked.now)
                 stored == _set_cached_analyze(intel, w, ai_response, db_write)
             IN  [intel EXCEPT !.memory_cache = stored.memory_cache,
                               !.db_rows = stored.db_rows,
                               !.response = OkResponse(ai_response),
                               !.source = "computed"]

\* POST /analyze at the time of the clock; db_read is whether the database
\* answers the lookup
analyze_at_clock ==
    /\ \E body \in RequestBodies, wallet \in ServedWallets \cup {NoWallet} :
          /\ body # "object" => wallet = NoWallet
          /\ LET c == [caller EXCEPT !.served = 1 - @, !.entry = "analyze",
                                     !.body = body, !.wallet = wallet,
                                     !.source = "none", !.fetched = {},
                                     !.classified = {}, !.fetch_result = << >>]
             IN  IF body = "not_json"
                 THEN caller' = [c EXCEPT !.response =
                        _error_response("Content-Type must be application/json",
                                        "INVALID_INPUT", 400)]
                 ELSE IF body = "invalid_json"
                 THEN caller' = [c EXCEPT !.response =
                        _error_response("Invalid JSON body", "INVALID_JSON", 400)]
                 ELSE IF body = "not_object"
                 THEN caller' = [c EXCEPT !.response =
                        _error_response("Body must be a JSON object",
                                        "INVALID_INPUT", 400)]
                 ELSE IF ~_validate_wallet(wallet).ok
                 THEN caller' = [c EXCEPT !.response =
                        _error_response(_validate_wallet(wallet).err,
                                        "VALIDATION_ERROR", 400)]
                 ELSE \E db_read \in BOOLEAN :
                        LET w == strip(wallet)
                            cached == _get_cached_analyze(c, w, db_read)
                        IN  IF cached.hit
                            THEN caller' = [c EXCEPT
                                    !.response = OkResponse(cached.result),
                                    !.source = cached.source]
                            ELSE \E f \in Fetches, db_write \in BOOLEAN :
                                    caller' = analyze_miss(
                                        [c EXCEPT !.memory_cache = cached.memory_cache],
                                        w, f, db_write)
    /\ UNCHANGED << frame, n_batches, float_ties, invocation, other_frame >>

\* precompute._analyze_and_save(wallet), run by the batch job at the time of
\* the clock: it writes the wallet_intelligence row of the address and the
\* whale_intel row.  A run that returns (False, message), for an invalid
\* address, a classification that raises or a failed save, writes nothing.
_analyze_and_save_at_clock ==
    /\ \E wallet \in ServedWallets, f \in Fetches :
          LET w == strip(wallet)
              txs == fetch_transactions(f.outcome, f.upstream)
          IN  /\ precompute_validate_wallet(w)
              /\ ~metrics_raise(txs)
              /\ LET res == caller.engine[txs][w]
                 IN  caller' = [caller EXCEPT
                        !.db_rows = save_wallet_intelligence_cache(@,
                            _format_ai_response(w, res.verdict,
                                res.confidence, res.entity_type,
                                res.behavior_summary, caller.now)),
                        !.whale_intel = @ \cup {w}]
    /\ UNCHANGED << frame, n_batches, float_ties, invocation, other_frame >>

\* time passes
Tick ==
    /\ caller.now < MaxClock
    /\ caller' = [caller EXCEPT !.now = @ + 1]
    /\ UNCHANGED << frame, n_batches, float_ties, invocation, other_frame >>

InitK ==
    /\ transactions = << >>
    /\ wallet_address = NoAddr
    /\ n_batches = 0
    /\ pc = "Start"
    /\ metrics = Unset
    /\ scores = Unset
    /\ best_verdict = "unset"
    /\ neutral_fallback = FALSE
    /\ entity_inference = "unset"
    /\ data_quality = Unset
    /\ confidence = None
    /\ behavior_summary = Unset
    /\ result = Unset
    /\ float_ties = {}
    /\ invocation = 1
    /\ other_frame = Unset
    /\ caller = IdleServer

NextK == analyze_at_clock \/ _analyze_and_save_at_clock \/ Tick

SpecK == InitK /\ [][NextK]_vars

---------------------------------------------------------------------------
(* The batch job: precompute.main over its list of wallets.                *)

\* the longest list of addresses given to the batch job
MaxWallets == 3

\* the lists of addresses the job is given, on the command line, in the
\* file or in WALLETS: an address in two spellings and a string that is
\* not an address
RECURSIVE GivenListsOfLen(_)
GivenListsOfLen(n) ==
    IF n = 0 THEN { << >> }
    ELSE { Append(l, a) : l \in GivenListsOfLen(n - 1), a \in ServedWallets }

GivenLists == UNION { GivenListsOfLen(n) : n \in 0..MaxWallets }

\* wallets = [a for a in args.addresses if _validate_wallet(a)]; the loaders
\* of the file and of WALLETS keep the same addresses
RECURSIVE ValidWallets(_)
ValidWallets(given) ==
    IF given = << >> THEN << >>
    ELSE IF precompute_validate_wallet(Head(given))
         THEN << Head(given) >> \o ValidWallets(Tail(given))
         ELSE ValidWallets(Tail(given))

\* precompute._analyze_and_save(wallet) as main calls it: the record of the
\* job after the call, its response the pair (success, message)
_analyze_and_save_wallet(c, wallet, failure, intel_saved) ==
    IF ~precompute_validate_wallet(strip(wallet))
    THEN [c EXCEPT !.response = [ok |-> FALSE, message |-> "Invalid address"]]
    ELSE analyze_and_save_validated(c, strip(wallet), failure, intel_saved)

\* the loop body of main: the counter of the branch, then the progress line
\* of the branch (on stdout unless --quiet, on stderr for a failure); the
\* print is inside the try, so a print that raises lands in
\* "except Exception", which counts a failure.  printed is whether the
\* stream takes the line.
count_wallet(c, printed) ==
    LET prints == IF c.response.ok THEN ~c.quiet ELSE TRUE
        counted == [c EXCEPT !.ok_count = IF c.response.ok THEN @ + 1 ELSE @,
                             !.fail_count = IF c.response.ok THEN @ ELSE @ + 1]
    IN  IF prints /\ ~printed
        THEN [counted EXCEPT !.fail_count = @ + 1, !.print_raised = TRUE]
        ELSE counted

\* main, from the arguments to the start of the loop
main_start ==
    /\ caller.entry = "main" /\ caller.pc = "start"
    /\ LET wallets == ValidWallets(caller.given)
       IN  IF wallets = << >>
           THEN caller' = [caller EXCEPT !.pc = "done", !.rc = 1]
           ELSE IF ~caller.database_url
           THEN caller' = [caller EXCEPT !.wallets = wallets,
                                         !.pc = "done", !.rc = 1]
           ELSE caller' = [caller EXCEPT !.wallets = wallets, !.pc = "loop"]
    /\ UNCHANGED << frame, n_batches, float_ties, invocation, other_frame >>

\* one iteration of "for i, wallet in enumerate(wallets, 1)"
main_wallet ==
    /\ caller.entry = "main" /\ caller.pc = "loop"
    /\ caller.i < Len(caller.wallets)
    /\ \E failure \in BatchFailures, intel_saved \in BOOLEAN,
          printed \in BOOLEAN :
          LET wallet == caller.wallets[caller.i + 1]
              run == _analyze_and_save_wallet(caller, wallet, failure,
                                              intel_saved)
              called == [run EXCEPT
                            !.i = @ + 1,
                            !.processed = Append(@, wallet),
                            !.successes = Append(@, run.response.ok)]
          IN  caller' = count_wallet(called, printed)
    /\ UNCHANGED << frame, n_batches, float_ties, invocation, other_frame >>

\* after the loop: return 0 if fail_count == 0 else 1
main_return ==
    /\ caller.entry = "main" /\ caller.pc = "loop"
    /\ caller.i = Len(caller.wallets)
    /\ caller' = [caller EXCEPT !.pc = "done",
                                !.rc = IF caller.fail_count = 0 THEN 0 ELSE 1]
    /\ UNCHANGED << frame, n_batches, float_ties, invocation, other_frame >>

\* the job before main runs: the list it is given, --quiet, and whether
\* DATABASE_URL is set
InitR ==
    /\ transactions = << >>
    /\ wallet_address = NoAddr
    /\ n_batches = 0
    /\ pc = "Start"
    /\ metrics = Unset
    /\ scores = Unset
    /\ best_verdict = "unset"
    /\ neutral_fallback = FALSE
    /\ entity_inference = "unset"
    /\ data_quality = Unset
    /\ confidence = None
    /\ behavior_summary = Unset
    /\ result = Unset
    /\ float_ties = {}
    /\ invocation = 1
    /\ other_frame = Unset
    /\ \E given \in GivenLists, quiet \in BOOLEAN, database_url \in BOOLEAN :
          caller = [ entry |-> "main", pc |-> "start", given |-> given,
                     quiet |-> quiet, database_url |-> database_url,
                     wallets |-> << >>, i |-> 0, ok_count |-> 0,
                     fail_count |-> 0, processed |-> << >>,
                     successes |-> << >>, print_raised |-> FALSE,
                     rc |-> None, response |-> Unset, fetched |-> {},
                     classified |-> {}, db_rows |-> {} ]

NextR == main_start \/ main_wallet \/ main_return

SpecR == InitR /\ [][NextR]_vars

---------------------------------------------------------------------------
(* Properties *)

AfterMetrics == {"MetricsComputed", "Scored", "VerdictChosen",
                 "ConfidenceComputed", "SummaryRendered"}
AfterScores == AfterMetrics \ {"MetricsComputed"}
AfterVerdict == AfterScores \ {"Scored"}
AfterConfidence == AfterVerdict \ {"VerdictChosen"}

\* the invocation went through the pipeline (the list was not empty)
HasMetrics == pc \in AfterMetrics \/ (pc = "Done" /\ transactions # << >>)
HasScores == pc \in AfterScores \/ (pc = "Done" /\ transactions # << >>)
HasVerdict == pc \in AfterVerdict \/ (pc = "Done" /\ transactions # << >>)
HasConfidence == pc \in AfterConfidence \/ (pc = "Done" /\ transactions # << >>)
Returned == pc = "Done"

Verdicts == Directional \cup {VERDICT_NEUTRAL}

MaxOfScores(sc) == CHOOSE x \in {sc[v] : v \in Directional} :
                       \A v \in Directional : sc[v] <= x

\* C1: every result returned for a non-empty transfer list has a confidence
\* in [0.30, 0.95] and a verdict of the closed five-value set.
C1_ConfidenceAndVerdictInRange ==
    (Returned /\ transactions # << >>) =>
        /\ result.confidence >= 30 /\ result.confidence <= 95
        /\ result.verdict \in Verdicts

\* a directional result with a confidence of 0.70 or more
C1_Witness ==
    /\ Returned /\ transactions # << >>
    /\ result.verdict \in Directional
    /\ result.confidence >= 70

\* C2: the four scores lie in [0, 1], and when all four are below 0.30 the
\* returned verdict is NEUTRAL and the returned confidence is 0.45.
C2_ScoresBoundedAndNeutralFallback ==
    /\ HasScores => \A v \in Directional : scores[v] >= 0 /\ scores[v] <= ONE
    /\ (Returned /\ transactions # << >>
          /\ \A v \in Directional : scores[v] < 3000) =>
            result.verdict = VERDICT_NEUTRAL /\ result.confidence = 45

\* a returned result whose best score is positive and below the floor
C2_Witness ==
    /\ Returned /\ transactions # << >>
    /\ \A v \in Directional : scores[v] < 3000
    /\ \E v \in Directional : scores[v] > 0

\* C3 (the claim as stated): classify_wallet never raises; a transfer whose
\* value is a malformed numeric string counts as 0.0.
C3_NeverRaises == pc # "Raised"

\* C4: an empty transfer list returns NEUTRAL, confidence 0.30, entity
\* "unknown" and the address it was given, and no metrics, scores or
\* confidence were computed on the way.
C4_EmptyListShortCircuits ==
    (Returned /\ transactions = << >>) =>
        /\ result.verdict = VERDICT_NEUTRAL
        /\ result.confidence = 30
        /\ result.entity_inference = ENTITY_UNKNOWN
        /\ result.entity_type = ENTITY_UNKNOWN
        /\ result.address = wallet_address
        /\ metrics = Unset /\ scores = Unset /\ confidence = None
        /\ best_verdict = "unset" /\ behavior_summary = Unset

C4_Witness == Returned /\ transactions = << >> /\ wallet_address = SubjectMixed

\* C5: the selected verdict has the maximum score when that maximum is at
\* least 0.30, and is NEUTRAL when the maximum is below 0.30, whichever score
\* was highest and also when several scores tie below the floor.
C5_VerdictIsArgMaxOrNeutral ==
    HasVerdict =>
        LET mx == MaxOfScores(scores)
        IN  /\ mx >= 3000 => best_verdict \in Directional /\ scores[best_verdict] = mx
            /\ mx < 3000 => best_verdict = VERDICT_NEUTRAL

\* two scores tie, above zero and below the floor, and the verdict is NEUTRAL
C5_Witness ==
    /\ HasVerdict
    /\ best_verdict = VERDICT_NEUTRAL
    /\ \E v, u \in Directional :
          v # u /\ scores[v] = scores[u] /\ scores[v] > 0
          /\ scores[v] = MaxOfScores(scores)

\* a verdict chosen with a score of exactly 0.30
C5_WitnessAtFloor ==
    /\ HasVerdict
    /\ MaxOfScores(scores) = 3000
    /\ best_verdict \in Directional

\* C6 (the claim as stated): for a wallet with inbound > 0 and outbound = 0
\* the accumulation signal "inflow/outflow ratio >= 1.5" holds, and with
\* outbound > 0 and inbound = 0 the distribution signal "outflow/inflow ratio
\* >= 1.5" holds.
C6_OneSidedWalletFiresRatioSignal ==
    HasMetrics =>
        /\ (metrics.total_in_eth > 0 /\ metrics.total_out_eth = 0) =>
               SIGNALS_ACCUMULATION(metrics)[1].holds
        /\ (metrics.total_out_eth > 0 /\ metrics.total_in_eth = 0) =>
               SIGNALS_DISTRIBUTION(metrics)[1].holds

\* C7 (the claim as stated): with an outbound total of zero the reported
\* outflow_inflow_ratio is None.
C7_OutflowInflowRatioNoneWhenNoOutflow ==
    (HasMetrics /\ metrics.total_out_eth = 0) => metrics.outflow_inflow_ratio = None

\* C7 (amended): with an outbound total of zero it is inflow_outflow_ratio
\* that is reported None; outflow_inflow_ratio is None exactly when the
\* inbound total is zero too, and is the number 0.0 otherwise.
C7_RatioNoneWhenDenominatorZero ==
    (HasMetrics /\ metrics.total_out_eth = 0) =>
        /\ metrics.inflow_outflow_ratio = None
        /\ (metrics.outflow_inflow_ratio = None) <=> (metrics.total_in_eth = 0)
        /\ metrics.total_in_eth > 0 => metrics.outflow_inflow_ratio = 0

C7_Witness ==
    HasMetrics /\ metrics.total_out_eth = 0 /\ metrics.total_in_eth > 0

\* the second-highest of the four scores, the winner v set aside
RunnerUp(v, sc) ==
    CHOOSE x \in {sc[u] : u \in Directional \ {v}} :
        \A u \in Directional \ {v} : sc[u] <= x

\* c (hundredths) is num/den rounded to two decimals
IsRounding(c, num, den) ==
    LET diff == c * den - num
    IN  2 * diff <= den /\ 2 * diff >= -den

\* 40000 * data_quality.den * (0.50 strength + 0.35 margin + 0.15 dq) * 0.65,
\* in hundredths: 13 (10 S + 7 M) q + 390000 p
ScaledBlendNum(v) ==
    LET S == scores[v]
        M == Min(ONE, Max(0, S - RunnerUp(v, scores)))
    IN  13 * (10 * S + 7 * M) * data_quality.den + 390000 * data_quality.num

\* 40000 * data_quality.den * (0.50 strength + 0.35 margin + 0.15 dq), in
\* hundredths: 20 (10 S + 7 M) q + 600000 p
UnscaledBlendNum(v) ==
    LET S == scores[v]
        M == Min(ONE, Max(0, S - RunnerUp(v, scores)))
    IN  20 * (10 * S + 7 * M) * data_quality.den + 600000 * data_quality.num

\* C8 (the claim as stated): for a non-neutral verdict the confidence is
\* 0.30 + (0.50 strength + 0.35 margin + 0.15 data_quality), clamped to
\* [0.30, 0.95] and rounded to two decimals.
C8_ConfidenceIsFloorPlusBlend ==
    (HasConfidence /\ ~neutral_fallback) =>
        LET den == 40000 * data_quality.den
            num == Min(95 * den, 30 * den + UnscaledBlendNum(best_verdict))
        IN  IsRounding(confidence, num, den)

\* C8 (amended): for a non-neutral verdict the confidence is
\* 0.30 + (0.95 - 0.30) * (0.50 strength + 0.35 margin + 0.15 data_quality),
\* which lies in [0.30, 0.95], rounded to two decimals.
C8_ConfidenceIsFloorPlusScaledBlend ==
    (HasConfidence /\ ~neutral_fallback) =>
        LET den == 40000 * data_quality.den
            num == 30 * den + ScaledBlendNum(best_verdict)
        IN  /\ IsRounding(confidence, num, den)
            /\ confidence >= 30 /\ confidence <= 95

\* a verdict that wins by a margin on a wallet with more than ten transfers
C8_Witness ==
    /\ HasConfidence /\ ~neutral_fallback
    /\ scores[best_verdict] > RunnerUp(best_verdict, scores)
    /\ RunnerUp(best_verdict, scores) > 0
    /\ metrics.total_txs > 10

\* C9 (the claim as stated): data quality is 0 at 10 transactions, rises
\* linearly to 1 at 80 and stays 1 above, and below 10 is proportional to
\* the count and nonzero for any count above zero.
C9_DataQualityRamp ==
    (HasConfidence /\ ~neutral_fallback) =>
        LET t == metrics.total_txs
            dq == data_quality
        IN  /\ t = 10 => dq.num = 0
            /\ t >= 80 => dq.num = dq.den
            /\ (t > 10 /\ t < 80) => dq.num * 70 = (t - 10) * dq.den
            /\ (t > 0 /\ t < 10) => dq.num > 0 /\ dq.num * 10 = t * dq.den

\* the transfers make up scenario D
IsScenarioD ==
    /\ metrics.total_txs = 15
    /\ metrics.total_flow_eth = 250 * ETH
    /\ metrics.last_seen - metrics.first_seen = 90 * SECONDS_PER_DAY
    /\ metrics.recent_tx_count = 1

\* C10 (the claim as stated): in scenario D, with the span measured as 90
\* days, dormancy-candidate is true and the returned verdict is WHALE_DORMANT.
C10_ScenarioDIsDormant ==
    (Returned /\ transactions # << >> /\ IsScenarioD /\ metrics.span_days = 9000) =>
        metrics.dormant_candidate /\ result.verdict = VERDICT_WHALE_DORMANT

\* C10 (amended): in scenario D dormancy-candidate is true, the dormant
\* score is at least 0.75, the verdict is not NEUTRAL, and it is
\* WHALE_DORMANT exactly when the dormant score is above each of the three
\* other scores (on a tie the earlier verdict is returned).
C10_ScenarioDIsDormantUnlessOutscored ==
    (Returned /\ transactions # << >> /\ IsScenarioD) =>
        /\ metrics.dormant_candidate
        /\ scores[VERDICT_WHALE_DORMANT] >= 7500
        /\ result.verdict # VERDICT_NEUTRAL
        /\ (result.verdict = VERDICT_WHALE_DORMANT) <=>
              \A v \in Directional \ {VERDICT_WHALE_DORMANT} :
                  scores[v] < scores[VERDICT_WHALE_DORMANT]

\* scenario D returning WHALE_DORMANT against a competing verdict
C10_Witness ==
    /\ Returned /\ transactions # << >> /\ IsScenarioD
    /\ result.verdict = VERDICT_WHALE_DORMANT
    /\ \E v \in Directional \ {VERDICT_WHALE_DORMANT} : scores[v] >= 3000

\* the transfers make up scenario B
IsScenarioB ==
    /\ metrics.total_txs = 5
    /\ metrics.num_inflows = 5 /\ metrics.num_outflows = 0
    /\ \A i \in 1..Len(transactions) : wei_to_eth(transactions[i].value) = Fine(30 * ETH)
    /\ metrics.unique_counterparties = 5
    /\ metrics.last_seen - metrics.first_seen = 10 * SECONDS_PER_DAY

\* C11: scenario B (5 inbound transfers of 30 ETH from 5 distinct
\* counterparties, nothing outbound, over 10 days) has a net of +150 ETH and
\* returns SMART_MONEY_ACCUMULATION with a confidence above 0.30 and the
\* entity likely_individual_whale.
C11_ScenarioBIsAccumulation ==
    (Returned /\ transactions # << >> /\ IsScenarioB) =>
        /\ metrics.net_eth = 150 * ETH
        /\ result.verdict = VERDICT_SMART_MONEY_ACCUMULATION
        /\ result.confidence > 30
        /\ result.entity_inference = ENTITY_WHALE

\* scenario B returned for an address given in mixed case, with the
\* exchange-rotation score as the runner-up
C11_Witness ==
    /\ Returned /\ transactions # << >> /\ IsScenarioB
    /\ wallet_address = SubjectMixed
    /\ result.verdict = VERDICT_SMART_MONEY_ACCUMULATION
    /\ scores[VERDICT_EXCHANGE_ROTATION] >= 3000

\* the transfers make up scenario C; "roughly balanced" is read as: neither
\* total reaches 1.5 times the other
IsScenarioC ==
    /\ metrics.total_txs = 40
    /\ metrics.num_inflows + metrics.num_outflows = 40
    /\ metrics.unique_counterparties = 20
    /\ metrics.last_seen - metrics.first_seen = 5 * SECONDS_PER_DAY
    /\ 2 * metrics.total_in_eth < 3 * metrics.total_out_eth
    /\ 2 * metrics.total_out_eth < 3 * metrics.total_in_eth

\* C12: in scenario C (40 transfers in 5 days, 20 distinct counterparties,
\* inbound and outbound roughly balanced) the many-counterparties and the
\* frequency signals of exchange rotation hold, the frequency measured over
\* the 5 days is at least 0.5 a day, the exchange-rotation score is above the
\* three others and the returned verdict is EXCHANGE_ROTATION.
C12_ScenarioCIsExchangeRotation ==
    (Returned /\ transactions # << >> /\ IsScenarioC) =>
        /\ SIGNALS_EXCHANGE_ROTATION(metrics)[1].holds
        /\ SIGNALS_EXCHANGE_ROTATION(metrics)[2].holds
        /\ metrics.span_days = 500 => metrics.tx_frequency >= 5000
        /\ \A v \in Directional \ {VERDICT_EXCHANGE_ROTATION} :
              scores[v] < scores[VERDICT_EXCHANGE_ROTATION]
        /\ result.verdict = VERDICT_EXCHANGE_ROTATION

\* scenario C with a net outflow of 50 ETH or more, where distribution is
\* the runner-up
C12_Witness ==
    /\ Returned /\ transactions # << >> /\ IsScenarioC
    /\ metrics.net_eth <= -NET_OUTFLOW_MIN_ETH
    /\ scores[VERDICT_STEALTH_DISTRIBUTION] >= 5000
    /\ result.verdict = VERDICT_EXCHANGE_ROTATION

\* both calls of the caller have returned
BothReturned == invocation = 2 /\ pc = "Done" /\ other_frame.pc = "Done"

IsReordering(s, t) == t \in Orderings(s)

\* C14 (the claim as stated): a call with the same transfers in another
\* order returns the same metrics, scores, verdict and confidence.
C14_OrderIndependent ==
    (BothReturned /\ transactions # << >>
        /\ IsReordering(other_frame.transactions, transactions)) =>
        /\ metrics = other_frame.metrics
        /\ scores = other_frame.scores
        /\ result.verdict = other_frame.result.verdict
        /\ result.confidence = other_frame.result.confidence

\* t is s with the value of one inbound transfer raised, all else the same
IsInboundRaise(s, t, wallet) ==
    /\ Len(s) = Len(t)
    /\ \E i \in 1..Len(s) :
          /\ Lower(s[i].to) = Lower(wallet)
          /\ t[i].value > s[i].value
          /\ t = [s EXCEPT ![i].value = t[i].value]

\* C15: raising the value of an inbound transfer, and with it the inbound
\* total, all else the same, never lowers the accumulation score.
C15_AccumulationMonotoneInInbound ==
    (BothReturned
        /\ IsInboundRaise(other_frame.transactions, transactions, wallet_address)) =>
        /\ metrics.total_in_eth >= other_frame.metrics.total_in_eth
        /\ scores[VERDICT_SMART_MONEY_ACCUMULATION]
              >= other_frame.scores[VERDICT_SMART_MONEY_ACCUMULATION]

\* a raise of the inbound total, against an outbound total that stays, that
\* raises the accumulation score
C15_Witness ==
    /\ BothReturned
    /\ IsInboundRaise(other_frame.transactions, transactions, wallet_address)
    /\ metrics.total_out_eth > 0
    /\ metrics.total_in_eth > other_frame.metrics.total_in_eth
    /\ scores[VERDICT_SMART_MONEY_ACCUMULATION]
          > other_frame.scores[VERDICT_SMART_MONEY_ACCUMULATION]

\* the weights of the four signal tables as the specification lists them,
\* in hundredths
TableWeights ==
    [v \in Directional |->
        CASE v = "SMART_MONEY_ACCUMULATION" -> << 30, 25, 20, 15, 10 >>
          [] v = "STEALTH_DISTRIBUTION" -> << 30, 25, 20, 15, 10 >>
          [] v = "EXCHANGE_ROTATION" -> << 35, 30, 20, 15 >>
          [] v = "WHALE_DORMANT" -> << 45, 30, 25 >>]

\* C16: each verdict's score is the sum of the weights of its signals that
\* hold divided by the sum of all its weights, with the weights of the four
\* tables of the specification; no weight is negative, and the score is 1.0
\* exactly when all the verdict's signals hold.
C16_ScoreIsWeightedShare ==
    HasScores =>
        \A v \in Directional :
            LET signals == SignalsOf(v, metrics)
                weights == TableWeights[v]
                holding == SumSeq([i \in 1..Len(weights) |->
                                      IF signals[i].holds THEN weights[i] ELSE 0])
            IN  /\ Len(signals) = Len(weights)
                /\ \A i \in 1..Len(weights) : signals[i].w = weights[i] /\ weights[i] >= 0
                /\ scores[v] * SumSeq(weights) = ONE * holding
                /\ (scores[v] = ONE) <=> \A i \in 1..Len(signals) : signals[i].holds

\* one verdict with all its signals holding, another with some of them
C16_Witness ==
    /\ HasScores
    /\ \E v, u \in Directional :
          /\ scores[v] = ONE
          /\ scores[u] > 0 /\ scores[u] < ONE
          /\ \E i, j \in 1..Len(SignalsOf(u, metrics)) :
                SignalsOf(u, metrics)[i].holds /\ ~SignalsOf(u, metrics)[j].holds

\* the entity of each verdict as the specification lists it
EntityOfVerdict ==
    [v \in Verdicts |->
        CASE v = "SMART_MONEY_ACCUMULATION" -> "likely_individual_whale"
          [] v = "STEALTH_DISTRIBUTION" -> "likely_distributor"
          [] v = "EXCHANGE_ROTATION" -> "likely_exchange_rotator"
          [] v = "WHALE_DORMANT" -> "likely_dormant_whale"
          [] v = "NEUTRAL" -> "unknown"]

\* C17: every returned result, the empty list's included, carries the one
\* entity the lookup gives for its verdict, and its entity_type equals its
\* entity_inference.
C17_EntityLookupTotalAndFixed ==
    Returned =>
        /\ result.verdict \in DOMAIN EntityOfVerdict
        /\ result.entity_inference = EntityOfVerdict[result.verdict]
        /\ result.entity_type = result.entity_inference

\* a dormant whale returned
C17_Witness ==
    /\ Returned /\ transactions # << >>
    /\ result.verdict = VERDICT_WHALE_DORMANT
    /\ result.entity_type = ENTITY_DORMANT_WHALE

\* the edges of the pipeline for a list that is not empty
StageEdges ==
    { << "Start", "MetricsComputed" >>, << "MetricsComputed", "Scored" >>,
      << "Scored", "VerdictChosen" >>, << "VerdictChosen", "ConfidenceComputed" >>,
      << "ConfidenceComputed", "SummaryRendered" >>, << "SummaryRendered", "Done" >> }

\* C18 (the claim as stated): the position of an invocation moves only along
\* Start, MetricsComputed, Scored, VerdictChosen, ConfidenceComputed,
\* SummaryRendered, Done for a list that is not empty, and from Start to
\* Done for the empty list; and every invocation reaches Done.
C18_StagesInOrderAndDone ==
    /\ [][IF transactions = << >> THEN pc = "Start" /\ pc' = "Done"
          ELSE << pc, pc' >> \in StageEdges]_pc
    /\ <>(pc = "Done")

\* C19: with two invocations for different wallets interleaved in any way,
\* a step of one leaves the frame of the other as it was, and whenever an
\* invocation has returned its result is the one classify_wallet returns
\* for its list and its address when nothing else runs.
C19_ConcurrentEqualsAlone ==
    [][ /\ wallet_address' # other_frame'.wallet_address
        /\ invocation' = invocation => other_frame' = other_frame
        /\ pc' = "Done" =>
             result' = classify_wallet(transactions', wallet_address', float_ties')
        /\ other_frame'.pc = "Done" =>
             other_frame'.result = classify_wallet(other_frame'.transactions,
                                                   other_frame'.wallet_address,
                                                   float_ties') ]_vars

\* both threads have returned, the first after it was suspended and resumed,
\* with different directional verdicts for the two wallets
C19_Witness ==
    /\ invocation = 1 /\ pc = "Done" /\ other_frame.pc = "Done"
    /\ wallet_address # other_frame.wallet_address
    /\ result.verdict \in Directional
    /\ other_frame.result.verdict \in Directional
    /\ result.verdict # other_frame.result.verdict

\* "0x" followed by the hex digits of an address and nothing else
WellFormed(s) ==
    s \in { << "0", "x" >> \o h : h \in [1..ADDRESS_HEX_LEN -> HexChars] }

\* what a caller has fetched, called and written
Effects == << caller.fetched, caller.classified, caller.memory_cache,
              caller.db_rows >>

\* C20 (the claim as stated): a request whose wallet is not "0x" followed
\* by the hex digits is rejected by both callers, 400 VALIDATION_ERROR by
\* POST /analyze and (False, "Invalid address ...") by _analyze_and_save,
\* with no fetch, no classify_wallet call and no cache or database write.
C20_EveryOtherStringRejected ==
    [][ caller'.pc = "responded" =>
          /\ (caller'.entry = "analyze" /\ caller'.body = "object"
                /\ ~WellFormed(caller'.wallet)) =>
                  /\ caller'.response.status = 400
                  /\ caller'.response.code = "VALIDATION_ERROR"
                  /\ Effects' = Effects
          /\ (caller'.entry = "_analyze_and_save"
                /\ ~WellFormed(caller'.wallet)) =>
                  /\ caller'.response = [ok |-> FALSE,
                                         message |-> "Invalid address"]
                  /\ Effects' = Effects ]_vars

\* C20 (amended): a request whose wallet, with the whitespace around it
\* removed, is not "0x" followed by the hex digits is rejected by both
\* callers, 400 VALIDATION_ERROR by POST /analyze and (False, "Invalid
\* address ...") by _analyze_and_save, with no fetch, no classify_wallet
\* call and no cache or database write; and every address that is fetched
\* or handed to classify_wallet is "0x" followed by the hex digits.
C20_MalformedAddressRejected ==
    [][ caller'.pc = "responded" =>
          /\ (caller'.entry = "analyze" /\ caller'.body = "object"
                /\ ~WellFormed(strip(caller'.wallet))) =>
                  /\ caller'.response.status = 400
                  /\ caller'.response.code = "VALIDATION_ERROR"
                  /\ Effects' = Effects
          /\ (caller'.entry = "_analyze_and_save"
                /\ ~WellFormed(strip(caller'.wallet))) =>
                  /\ caller'.response = [ok |-> FALSE,
                                         message |-> "Invalid address"]
                  /\ Effects' = Effects
          /\ \A a \in caller'.fetched \cup caller'.classified : WellFormed(a) ]_vars

\* POST /analyze has rejected a wallet of the right length with a character
\* that is not a hex digit, and the cache still holds what it held
C20_Witness ==
    /\ caller.pc = "responded" /\ caller.entry = "analyze"
    /\ caller.body = "object"
    /\ Len(caller.wallet) = WALLET_MAX_LEN
    /\ SubSeq(caller.wallet, 1, 2) = << "0", "x" >>
    /\ ~WellFormed(caller.wallet)
    /\ caller.response.code = "VALIDATION_ERROR"
    /\ caller.memory_cache # {}
    /\ caller.fetched = {} /\ caller.classified = {} /\ caller.db_rows = {}

\* the transfers of the list whose timestamp is a number
Timestamped == { i \in 1..Len(transactions) :
                   transactions[i].timeStamp \notin {None, Malformed} }

\* the latest and the earliest timestamp of the list
LastSeen == CHOOSE t \in { transactions[i].timeStamp : i \in Timestamped } :
               \A i \in Timestamped : transactions[i].timeStamp <= t
FirstSeen == CHOOSE t \in { transactions[i].timeStamp : i \in Timestamped } :
                \A i \in Timestamped : transactions[i].timeStamp >= t

\* the records whose timestamp is at least last-seen minus 30 days
RecencyWindowCount ==
    Cardinality({ i \in Timestamped :
                    transactions[i].timeStamp >= LastSeen - 30 * SECONDS_PER_DAY })

\* C23: the dormancy-candidate flag is true exactly when the list has at
\* least 10 transfers, at most 3 of them lie in the 30 days before the last
\* one, and total inbound plus total outbound is at least 200 ETH.
C23_DormantCandidateExactly ==
    HasMetrics =>
        (metrics.dormant_candidate <=>
            /\ Len(transactions) >= 10
            /\ RecencyWindowCount <= 3
            /\ metrics.total_in_eth + metrics.total_out_eth >= 200 * ETH)

\* the flag holds for a list with a transfer inside the window, and a
\* transfer without a timestamp
C23_Witness ==
    /\ HasMetrics /\ metrics.dormant_candidate
    /\ RecencyWindowCount \in 1..3
    /\ Cardinality(Timestamped) > RecencyWindowCount


\* last-seen minus first-seen in seconds, 0 for a list without timestamps
SpanSeconds == IF Timestamped = {} THEN 0 ELSE LastSeen - FirstSeen

\* C24: the span is last minus first timestamp in days, and the frequency
\* is the number of transfers divided by the span when the span is at least
\* one day and 0 otherwise; both are 0 when fewer than two transfers have a
\* timestamp.
C24_SpanAndFrequency ==
    HasMetrics =>
        /\ metrics.span_days = MulDivRound(SpanSeconds, 100, SECONDS_PER_DAY)
        /\ metrics.tx_frequency =
               IF SpanSeconds >= TX_FREQ_MIN_DAYS * SECONDS_PER_DAY
               THEN DivRound(Len(transactions) * SECONDS_PER_DAY, SpanSeconds, 4)
               ELSE 0
        /\ Cardinality(Timestamped) < 2 =>
               metrics.span_days = 0 /\ metrics.tx_frequency = 0

\* the values of the subject's outbound transfers, in the order of the list
OutValues ==
    SelectSeqBy([i \in 1..Len(transactions) |-> wei_to_eth(transactions[i].value)],
                [i \in 1..Len(transactions) |->
                    /\ wallet_address # NoAddr
                    /\ Lower(transactions[i].from) = Lower(wallet_address)])

\* twice the median of the outbound values: the middle one counted twice
\* for an odd count, the sum of the two middle ones for an even count
TwiceMedianOut ==
    LET n == Len(OutValues)
    IN  IF n = 0 THEN 0
        ELSE IF n % 2 = 1 THEN 2 * SortedAt(OutValues, n \div 2)
        ELSE SortedAt(OutValues, n \div 2 - 1) + SortedAt(OutValues, n \div 2)

\* C25: the staggered-exits flag is true exactly when the subject has at
\* least 5 outbound transfers, the median outbound value is below 10 ETH
\* and total outbound is above 50 ETH.
C25_StaggeredExitsExactly ==
    HasMetrics =>
        (metrics.staggered_exits <=>
            /\ Len(OutValues) >= 5
            /\ TwiceMedianOut < 2 * Fine(LARGE_TRANSFER_ETH)
            /\ metrics.total_out_eth > NET_OUTFLOW_MIN_ETH)

\* the greatest score and the verdicts that have it
TopScore == CHOOSE s \in { scores[v] : v \in Directional } :
                \A v \in Directional : scores[v] <= s
TopVerdicts == { v \in Directional : scores[v] = TopScore }

\* the position of a verdict in the fixed order accumulation, distribution,
\* exchange rotation, dormant whale
OrderIndex(v) == CHOOSE k \in 1..Len(VerdictOrder) : VerdictOrder[k] = v

\* whether c (hundredths) is the clamped raw confidence of a blend rounded
\* to two decimals
IsRoundedConfidence(c, strength, margin, txs) ==
    LET raw == RawConfidence(Blend(strength, margin, DataQuality(txs)))
    IN  IF raw.num >= CONFIDENCE_MAX * raw.den THEN c = CONFIDENCE_MAX
        ELSE IF raw.num <= CONFIDENCE_MIN * raw.den THEN c = CONFIDENCE_MIN
        ELSE /\ 2 * (c * raw.den - raw.num) <= raw.den
             /\ 2 * (raw.num - c * raw.den) <= raw.den

\* C26: when two or more verdicts share the greatest score and it is at
\* least 0.30, the verdict is the first of them in the fixed order and the
\* confidence is the one of a blend whose margin component is 0.
C26_TieGoesToFirstWithZeroMargin ==
    (HasConfidence /\ Cardinality(TopVerdicts) >= 2 /\ TopScore >= MIN_SIGNAL) =>
        /\ best_verdict \in TopVerdicts
        /\ \A v \in TopVerdicts : OrderIndex(best_verdict) <= OrderIndex(v)
        /\ IsRoundedConfidence(confidence, TopScore, 0, Len(transactions))

\* a tie at or above the floor between two verdicts neither of which is the
\* first of the order, decided for the earlier one
C26_Witness ==
    /\ HasConfidence /\ Cardinality(TopVerdicts) >= 2 /\ TopScore >= MIN_SIGNAL
    /\ VERDICT_SMART_MONEY_ACCUMULATION \notin TopVerdicts
    /\ best_verdict \in TopVerdicts
    /\ confidence > CONFIDENCE_MIN

\* C28: a returned NEUTRAL carries confidence 0.30 for the empty list and
\* 0.45 for a non-empty one, and a returned directional verdict carries at
\* least 0.40.
C28_NeutralConstantsAndDirectionalFloor ==
    Returned =>
        /\ result.verdict = VERDICT_NEUTRAL =>
               result.confidence = IF transactions = << >> THEN 30 ELSE 45
        /\ result.verdict \in Directional => result.confidence >= 40

\* a directional verdict returned with a confidence below the 0.45 of a
\* NEUTRAL on a non-empty list
C28_Witness ==
    /\ Returned
    /\ result.verdict \in Directional
    /\ result.confidence < CONFIDENCE_MIN + NEUTRAL_BONUS

\* C30: whenever the dormancy-candidate flag holds, the signal "at most 3
\* transfers in the recency window and historically large" holds too, the
\* dormant-whale score is at least 0.75 and the verdict is not NEUTRAL.
C30_DormantCandidateNeverNeutral ==
    (HasMetrics /\ metrics.dormant_candidate) =>
        /\ metrics.recent_tx_count <= RECENCY_MAX_TXS_DORMANT
        /\ metrics.historically_large
        /\ HasScores => /\ SIGNALS_WHALE_DORMANT(metrics)[2].holds
                        /\ scores[VERDICT_WHALE_DORMANT] >= 7500
        /\ HasVerdict => best_verdict # VERDICT_NEUTRAL
        /\ Returned => result.verdict # VERDICT_NEUTRAL

\* a returned classification of a dormancy candidate whose dormant-whale
\* score is exactly 0.75 and is outscored by another verdict
C30_Witness ==
    /\ Returned /\ HasMetrics /\ metrics.dormant_candidate
    /\ scores[VERDICT_WHALE_DORMANT] = 7500
    /\ result.verdict \in Directional \ {VERDICT_WHALE_DORMANT}

\* the transfers of the list in which the subject is neither sender nor
\* receiver
ThirdPartyIndices ==
    { i \in 1..Len(transactions) :
        /\ Lower(transactions[i].from) # Lower(wallet_address)
        /\ Lower(transactions[i].to) # Lower(wallet_address) }

\* the third-party transfer the second call's list has more than the first
AddedTransfer == transactions[CHOOSE i \in ThirdPartyIndices : TRUE]

\* a metric of the first call; the empty list of a first call has no
\* transfers, no flow, no timestamps and no timing pattern
MetricBefore(field) ==
    IF other_frame.transactions # << >> THEN other_frame.metrics[field]
    ELSE IF field \in {"first_seen", "last_seen"} THEN None
    ELSE IF field = "repeated_timing" THEN FALSE
    ELSE 0

\* the metrics of the second call are those of the first call's list with
\* one third-party transfer added
SecondCallHasMetrics ==
    /\ invocation = 2
    /\ HasMetrics
    /\ Cardinality(ThirdPartyIndices) = 1

\* C29: a transfer in which the subject is neither sender nor receiver
\* leaves total inbound, total outbound, the net value, the counterparty
\* count and the inbound and outbound transfer counts as they were; it adds
\* one to total_txs, one to the large-transfer count when its value is at
\* least 10 ETH, one to the spike count when its value is at least 25 ETH,
\* and its timestamp, when it has one, widens first-seen and last-seen.
C29_ThirdPartyTransferFrame ==
    SecondCallHasMetrics =>
        LET v == wei_to_eth(AddedTransfer.value)
            ts == AddedTransfer.timeStamp
            Same(f) == metrics[f] = MetricBefore(f)
        IN  /\ Same("total_in_eth") /\ Same("total_out_eth") /\ Same("net_eth")
            /\ Same("unique_counterparties")
            /\ Same("num_inflows") /\ Same("num_outflows")
            /\ metrics.total_txs = MetricBefore("total_txs") + 1
            /\ metrics.large_transfers_count =
                   MetricBefore("large_transfers_count")
                   + (IF v >= Fine(10 * ETH) THEN 1 ELSE 0)
            /\ metrics.spike_count =
                   MetricBefore("spike_count") + (IF v >= Fine(25 * ETH) THEN 1 ELSE 0)
            /\ IF ts \in {None, Malformed}
               THEN /\ Same("first_seen") /\ Same("last_seen")
                    /\ Same("span_days") /\ Same("recent_tx_count")
                    /\ Same("repeated_timing")
               ELSE /\ metrics.first_seen =
                           IF MetricBefore("first_seen") = None THEN ts
                           ELSE Min(ts, MetricBefore("first_seen"))
                    /\ metrics.last_seen =
                           IF MetricBefore("last_seen") = None THEN ts
                           ELSE Max(ts, MetricBefore("last_seen"))

\* a third-party transfer of 30 ETH stamped 90 days after the others: the
\* flows and counts of the subject are as before and positive, the list is
\* one longer, and the large-transfer count, the spike count, the span and
\* the recency count have changed
C29_Witness ==
    /\ SecondCallHasMetrics
    /\ other_frame.transactions # << >>
    /\ metrics.total_in_eth = other_frame.metrics.total_in_eth
    /\ metrics.total_in_eth > 0 /\ metrics.total_out_eth > 0
    /\ metrics.unique_counterparties = other_frame.metrics.unique_counterparties
    /\ metrics.total_txs = other_frame.metrics.total_txs + 1
    /\ metrics.large_transfers_count > other_frame.metrics.large_transfers_count
    /\ metrics.spike_count > other_frame.metrics.spike_count
    /\ metrics.span_days > other_frame.metrics.span_days
    /\ metrics.recent_tx_count < other_frame.metrics.recent_tx_count

\* a step that serves a request to POST /analyze, and one whose body is an
\* object with a well-formed wallet
RequestStep == caller'.served # caller.served
ValidRequest == caller'.body = "object" /\ _validate_wallet(caller'.wallet).ok

\* the stripped wallet of the request served by the step
RequestedWallet == strip(caller'.wallet)

\* when the request arrives: the in-memory entries of the wallet that are at
\* most, and more than, ANALYZE_CACHE_TTL old, and the rows of the address
\* the database holds fresh
FreshEntries ==
    { e \in caller.memory_cache :
        /\ e.key = lower(RequestedWallet)
        /\ caller.now - e.cached_at <= ANALYZE_CACHE_TTL }
StaleEntries ==
    { e \in caller.memory_cache :
        /\ e.key = lower(RequestedWallet)
        /\ caller.now - e.cached_at > ANALYZE_CACHE_TTL }
FreshRows ==
    { r \in caller.db_rows :
        /\ r.address = RequestedWallet
        /\ r.last_updated > caller.now - ANALYZE_CACHE_TTL }

\* C21: a request for a wallet whose result was cached at most
\* ANALYZE_CACHE_TTL ago is answered with a cached response and neither
\* fetch_transactions nor classify_wallet is called; an in-memory entry
\* older than the TTL is never the response, and the lookup that finds it
\* deletes it.
C21_CachedWithinTTL ==
    [][ (RequestStep /\ ValidRequest) =>
          /\ FreshEntries # {} =>
                /\ caller'.fetched = {} /\ caller'.classified = {}
                /\ caller'.response.status = 200
                /\ caller'.response.body \in
                       { e.result : e \in FreshEntries }
                       \cup { _row_to_ai_response(r) : r \in FreshRows }
          /\ StaleEntries # {} =>
                /\ caller'.source # "memory"
                /\ caller'.response.status = 200 =>
                       caller'.response.body \notin { e.result : e \in StaleEntries }
                /\ caller'.source # "db" =>
                       caller'.memory_cache \cap StaleEntries = {}
      ]_vars

\* a request answered from the in-memory cache exactly ANALYZE_CACHE_TTL
\* after the result was cached under another spelling of the address, the
\* database holding no fresh row, without a fetch or a classification
C21_Witness ==
    /\ caller.entry = "analyze" /\ caller.source = "memory"
    /\ caller.fetched = {} /\ caller.classified = {}
    /\ caller.response.body.address # strip(caller.wallet)
    /\ \E e \in caller.memory_cache :
          /\ e.result = caller.response.body
          /\ caller.now - e.cached_at = ANALYZE_CACHE_TTL

\* the step called fetch_transactions and got the empty list: the request to
\* Etherscan failed, or the wallet has no transactions
EmptyFetch == caller'.fetched # {} /\ caller'.fetch_result = << >>

\* the response classify_wallet's empty-list branch leads to
IsNoDataResponse(r) ==
    /\ r.verdict = VERDICT_NEUTRAL
    /\ r.confidence = CONFIDENCE_MIN
    /\ r.summary.template = "no_data"

\* the fresh in-memory entries of the requested wallet that hold such a
\* response
NoDataEntries == { e \in FreshEntries : IsNoDataResponse(e.result) }

\* a request whose fetch gives the empty list is answered 200 with NEUTRAL
\* and 0.30, and the answer is in the in-memory cache under the lower-cased
\* wallet, stamped with the time of the request
EmptyFetchAnsweredAndCached ==
    EmptyFetch =>
        /\ caller'.classified = caller'.fetched
        /\ caller'.response.status = 200
        /\ IsNoDataResponse(caller'.response.body)
        /\ [ key |-> lower(RequestedWallet), result |-> caller'.response.body,
             cached_at |-> caller.now ] \in caller'.memory_cache

---------------------------------------------------------------------------
\* main has returned
MainReturned == caller.entry = "main" /\ caller.pc = "done"

\* no call of _analyze_and_save returned (False, message)
NoWalletFailed == \A k \in 1..Len(caller.successes) : caller.successes[k]

\* C22: the batch runner processes every wallet of its list exactly once
\* even when earlier wallets fail; when main returns, ok_count + fail_count
\* is the number of wallets and the exit code is 0 if and only if no wallet
\* failed; with no valid wallet or without DATABASE_URL it returns 1 and has
\* processed nothing.
C22_EveryWalletCountedOnce ==
    MainReturned =>
        LET wallets == ValidWallets(caller.given)
        IN  IF wallets = << >> \/ ~caller.database_url
            THEN caller.rc = 1 /\ caller.processed = << >>
            ELSE /\ caller.processed = wallets
                 /\ caller.ok_count + caller.fail_count = Len(wallets)
                 /\ caller.rc = 0 <=> NoWalletFailed
=============================================================================
